---- MODULE Spec2Model ----
(***************************************************************************)
(* openapi-to-mcp: OpenAPI 3.x document -> endpoint list -> MCP tool       *)
(* definitions -> generated server bundle.                                 *)
(*                                                                         *)
(* Strings the code takes apart (HTTP methods, path templates, operation   *)
(* ids, endpoint keys) are sequences of one-character strings, so that     *)
(* split, slice, toUpperCase and template concatenation are computed as    *)
(* the code computes them.  Strings the code only copies or compares       *)
(* (parameter names, content types) are TLA+ strings.                      *)
(* A JavaScript object is a record; an absent or undefined property is a   *)
(* field the record does not have.                                         *)
(***************************************************************************)
EXTENDS Integers, Sequences, FiniteSets, TLC

VARIABLES
    pc,            \* position in the run: which call has returned
    method,        \* generateOperationId: argument `method`
    path,          \* generateOperationId: argument `path`
    operationId,   \* generateOperationId: returned identifier
    api,           \* the dereferenced OpenAPI document given to extractFromSpec
    parsed,        \* ParsedOpenAPI.endpoints returned by extractFromSpec
    enabledPaths,  \* mapToMcpTools: argument `enabledPaths` (Undefined or a set)
    tools,         \* McpToolDefinition[] returned by mapToMcpTools
    options,       \* GeneratorOptions given to generateMcpServer
    files,         \* GeneratedFiles returned by generateMcpServer
    values,        \* runGenerate: the command-line flags returned by parseArgs
    outputDir,     \* the file system at resolvedOutput: whether it exists, its entries
    nextFile,      \* runGenerate: position of the write loop in Object.entries(files)
    stderr,        \* the diagnostics written by console.error
    exitCode,      \* the status given to process.exit: <<>> while the process runs
    processEnv,    \* emitted server: process.env, variable name -> value
    call,          \* emitted executeRequest: the tool definition and the arguments
    headers,       \* emitted executeRequest: the local `headers` object
    request,       \* emitted transport: the HTTP request to /mcp being answered
    response,      \* emitted transport: the answer to the last request
    transports,    \* emitted transport: the Map `transports`, session id -> transport
    created,       \* the transport objects constructed so far, in construction order
    connected      \* the transports given to mcpServer.connect, in call order

cliVars == <<values, outputDir, nextFile, stderr, exitCode>>

httpVars == <<request, response, transports, created, connected>>

serverVars == <<processEnv, call, headers, request, response, transports, created, connected>>

vars == <<pc, method, path, operationId, api, parsed, enabledPaths, tools, options, files,
          values, outputDir, nextFile, stderr, exitCode, processEnv, call, headers,
          request, response, transports, created, connected>>

(***************************************************************************)
(* Bounds of the model.                                                    *)
(***************************************************************************)
MaxMethodLen == 2         \* generateOperationId: length of the method string
MaxPathLen == 4           \* generateOperationId: length of the path template
MaxOperations == 3        \* Spec: operations in one document
MaxParams == 2            \* SpecEndpoint: operation-level parameters of the operation
MaxFilterOperations == 2  \* SpecFilter: operations in one document
MaxGenOperations == 1     \* SpecGen: operations in one document
MaxMergeParams == 2       \* SpecMerge: parameters at the path level, and at the operation level
MaxSchemeNames == 2       \* SpecServer: scheme names in the security requirement of the operation
MaxTransports == 2        \* SpecTransport: transports the server constructs in one run

(***************************************************************************)
(* JavaScript string primitives.                                           *)
(***************************************************************************)
LowerLetters == <<"a","b","c","d","e","f","g","h","i","j","k","l","m",
                  "n","o","p","q","r","s","t","u","v","w","x","y","z">>
UpperLetters == <<"A","B","C","D","E","F","G","H","I","J","K","L","M",
                  "N","O","P","Q","R","S","T","U","V","W","X","Y","Z">>

IndexIn(c, letters) ==
    IF \E i \in 1..Len(letters) : letters[i] = c
    THEN CHOOSE i \in 1..Len(letters) : letters[i] = c
    ELSE 0

charToUpper(c) ==
    IF IndexIn(c, LowerLetters) > 0 THEN UpperLetters[IndexIn(c, LowerLetters)] ELSE c

charToLower(c) ==
    IF IndexIn(c, UpperLetters) > 0 THEN LowerLetters[IndexIn(c, UpperLetters)] ELSE c

toUpperCase(str) == [i \in 1..Len(str) |-> charToUpper(str[i])]

toLowerCase(str) == [i \in 1..Len(str) |-> charToLower(str[i])]

\* str.startsWith(c) / str.endsWith(c) for a one-character c
startsWith(str, c) == Len(str) > 0 /\ str[1] = c

endsWith(str, c) == Len(str) > 0 /\ str[Len(str)] = c

\* str.slice(1): everything after the first character ("" for "")
sliceFrom1(str) == IF str = <<>> THEN <<>> ELSE Tail(str)

\* str.slice(1, -1): without the first and the last character
slice1ToLast(str) == IF Len(str) <= 2 THEN <<>> ELSE SubSeq(str, 2, Len(str) - 1)

\* str.charAt(0): the first character, or "" when there is none
charAt0(str) == IF str = <<>> THEN <<>> ELSE <<str[1]>>

RECURSIVE splitFrom(_, _, _, _)
splitFrom(str, sep, cur, parts) ==
    IF str = <<>> THEN Append(parts, cur)
    ELSE IF Head(str) = sep
         THEN splitFrom(Tail(str), sep, <<>>, Append(parts, cur))
         ELSE splitFrom(Tail(str), sep, Append(cur, Head(str)), parts)

\* str.split(sep) for a one-character separator
split(str, sep) == splitFrom(str, sep, <<>>, <<>>)

\* parts.filter(Boolean): drops the empty strings
filterBoolean(parts) == SelectSeq(parts, LAMBDA part : part # <<>>)

RECURSIVE join(_)
\* parts.join('')
join(parts) == IF parts = <<>> THEN <<>> ELSE Head(parts) \o join(Tail(parts))

(***************************************************************************)
(* JavaScript object primitives.                                           *)
(***************************************************************************)
EmptyObject == <<>>

\* `key in obj` / obj.key !== undefined
Has(obj, key) == key \in DOMAIN obj

\* typeof obj === 'object' && obj !== null && '$ref' in obj
isReference(obj) == Has(obj, "$ref")

\* obj.key || fallback for a string property: undefined and "" are falsy
StrOr(obj, key, fallback) ==
    IF Has(obj, key) /\ obj[key] # <<>> THEN obj[key] ELSE fallback

\* obj.key || false for a boolean property
BoolOr(obj, key) == Has(obj, key) /\ obj[key]

\* obj.key || [] for an array property (an array, even empty, is truthy)
ArrOr(obj, key) == IF Has(obj, key) THEN obj[key] ELSE <<>>

\* Object.entries(obj) of the ordered maps of the document: <<key, value>> pairs
\* in insertion order; obj[key] is the value of the entry with that key
Lookup(entries, key) ==
    IF \E i \in 1..Len(entries) : entries[i][1] = key
    THEN {entries[CHOOSE i \in 1..Len(entries) : entries[i][1] = key][2]}
    ELSE {}

RECURSIVE flatten(_)
\* the concatenation of a sequence of sequences
flatten(seqs) == IF seqs = <<>> THEN <<>> ELSE Head(seqs) \o flatten(Tail(seqs))

(***************************************************************************)
(* parser.ts: operation-id synthesis.                                      *)
(***************************************************************************)
capitalize(str) == toUpperCase(charAt0(str)) \o sliceFrom1(str)

mapPart(part) ==
    IF startsWith(part, "{") /\ endsWith(part, "}")
    THEN <<"B", "y">> \o capitalize(slice1ToLast(part))
    ELSE capitalize(part)

generateOperationIdKeepCase(m, p) ==
    capitalize(m)
        \o join([i \in 1..Len(filterBoolean(split(p, "/"))) |->
                    mapPart(filterBoolean(split(p, "/"))[i])])

generateOperationId(m, p) ==
    LET pathParts == filterBoolean(split(p, "/"))
    IN  capitalize(toLowerCase(m)) \o join([i \in 1..Len(pathParts) |-> mapPart(pathParts[i])])

(***************************************************************************)
(* parser.ts: extraction.                                                  *)
(*                                                                         *)
(* The document:  api.paths and api.components.securitySchemes are         *)
(* sequences of <<key, value>> entries in declaration order.  A path item  *)
(* is a reference node or a record whose field `ops` holds its             *)
(* <<method key, operation>> entries in declaration order, with an         *)
(* optional field `parameters`.  An operation's requestBody.content is a   *)
(* sequence of <<content type, media type>> entries, and its `security` a  *)
(* sequence of requirement objects, each the sequence of its scheme names. *)
(***************************************************************************)
\* the properties of obj among keys that obj has
Pick(obj, keys) == [k \in (keys \cap DOMAIN obj) |-> obj[k]]

METHODS == << <<"g","e","t">>, <<"p","o","s","t">>, <<"p","u","t">>,
              <<"p","a","t","c","h">>, <<"d","e","l","e","t","e">>,
              <<"h","e","a","d">>, <<"o","p","t","i","o","n","s">> >>

extractParameter(param) ==
    [name     |-> param.name,
     in       |-> param.in,
     required |-> BoolOr(param, "required"),
     schema   |-> IF Has(param, "schema") THEN param.schema ELSE [type |-> "string"]]
    @@ Pick(param, {"description"})

\* the first content type taken whatever else the body declares
extractRequestBodyFirstOnly(body) ==
    LET content == IF Has(body, "content") THEN body.content ELSE <<>>
        first   == IF content = <<>> THEN {} ELSE {content[1]}
    IN  {[required    |-> BoolOr(body, "required"),
          contentType |-> entry[1],
          schema      |-> entry[2].schema]
            : entry \in {e \in first : e[1] # "" /\ Has(e[2], "schema")}}

\* the RequestBodySchema, or nothing (undefined): a set of at most one element
extractRequestBody(body) ==
    LET content     == IF Has(body, "content") THEN body.content ELSE <<>>
        jsonContent == Lookup(content, "application/json")
        first       == IF content = <<>> THEN {} ELSE {content[1]}
    IN  IF \E media \in jsonContent : Has(media, "schema")
        THEN {[required    |-> BoolOr(body, "required"),
               contentType |-> "application/json",
               schema      |-> media.schema] : media \in jsonContent}
        ELSE {[required    |-> BoolOr(body, "required"),
               contentType |-> entry[1],
               schema      |-> entry[2].schema]
                 : entry \in {e \in first : e[1] # "" /\ Has(e[2], "schema")}}

extractSecurityScheme(scheme) ==
    IF scheme.type = "apiKey" THEN Pick(scheme, {"type", "name", "in"})
    ELSE IF scheme.type = "http" THEN Pick(scheme, {"type", "scheme", "bearerFormat"})
    ELSE IF scheme.type = "oauth2" /\ Has(scheme, "flows") THEN Pick(scheme, {"type", "flows"})
    ELSE IF scheme.type = "openIdConnect" /\ Has(scheme, "openIdConnectUrl")
         THEN Pick(scheme, {"type", "openIdConnectUrl"})
    ELSE Pick(scheme, {"type"})

\* operation.operationId ?? generateOperationId(method, path)
operationIdOfNullish(operation, m, p) ==
    IF Has(operation, "operationId") THEN operation.operationId ELSE generateOperationId(m, p)

\* operation.operationId || generateOperationId(method, path)
operationIdOf(operation, m, p) == StrOr(operation, "operationId", generateOperationId(m, p))

\* the names of the first requirement object only
securitySchemeNamesFirstRequirement(security) ==
    IF security = <<>> THEN <<>> ELSE Head(security)

\* for (const req of security) securitySchemes.push(...Object.keys(req))
securitySchemeNames(security) == flatten(security)

\* pathParameters is pathItem.parameters || []
extractEndpoint(p, m, operation, pathParameters) ==
    LET allParams   == pathParameters \o ArrOr(operation, "parameters")
        parameters  == [i \in 1..Len(SelectSeq(allParams, LAMBDA param : ~isReference(param))) |->
                          extractParameter(SelectSeq(allParams, LAMBDA param : ~isReference(param))[i])]
        requestBody == IF Has(operation, "requestBody") /\ ~isReference(operation.requestBody)
                       THEN extractRequestBody(operation.requestBody)
                       ELSE {}
        security    == ArrOr(operation, "security")
    IN  [operationId     |-> operationIdOf(operation, m, p),
         method          |-> m,
         path            |-> p,
         parameters      |-> parameters,
         securitySchemes |-> securitySchemeNames(security),
         tags            |-> ArrOr(operation, "tags")]
        @@ Pick(operation, {"summary", "description"})
        @@ (IF requestBody = {} THEN EmptyObject
            ELSE [requestBody |-> CHOOSE rb \in requestBody : TRUE])

\* the loop over Object.keys(pathItem) instead of METHODS
endpointsOfPathDeclaredOrder(p, pathItem) ==
    LET declared == SelectSeq([i \in 1..Len(pathItem.ops) |-> pathItem.ops[i][1]],
                              LAMBDA m : \E k \in 1..Len(METHODS) : METHODS[k] = m)
    IN  [i \in 1..Len(declared) |->
            extractEndpoint(p, toUpperCase(declared[i]),
                            CHOOSE operation \in Lookup(pathItem.ops, declared[i]) : TRUE,
                            ArrOr(pathItem, "parameters"))]

\* the inner loop of extractFromSpec: the endpoints of one path, in METHODS order
endpointsOfPath(p, pathItem) ==
    LET declared == SelectSeq(METHODS, LAMBDA m : Lookup(pathItem.ops, m) # {})
    IN  [i \in 1..Len(declared) |->
            extractEndpoint(p, toUpperCase(declared[i]),
                            CHOOSE operation \in Lookup(pathItem.ops, declared[i]) : TRUE,
                            ArrOr(pathItem, "parameters"))]

\* an operation without scheme names takes those of the document-wide requirement
extractFromSpecInheritSecurity(doc) ==
    LET schemes == IF Has(doc, "components") /\ Has(doc.components, "securitySchemes")
                   THEN SelectSeq(doc.components.securitySchemes,
                                  LAMBDA entry : ~isReference(entry[2]))
                   ELSE <<>>
        entries == IF Has(doc, "paths")
                   THEN SelectSeq(doc.paths, LAMBDA entry : ~isReference(entry[2]))
                   ELSE <<>>
    IN  [baseUrl         |-> IF Has(doc, "servers") /\ doc.servers # <<>>
                             THEN StrOr(doc.servers[1], "url", <<>>)
                             ELSE <<>>,
         endpoints       |-> LET es == flatten([i \in 1..Len(entries) |->
                                        endpointsOfPath(entries[i][1], entries[i][2])])
                             IN  [i \in 1..Len(es) |->
                                    IF es[i].securitySchemes = <<>>
                                    THEN [es[i] EXCEPT !.securitySchemes =
                                              securitySchemeNames(ArrOr(doc, "security"))]
                                    ELSE es[i]],
         securitySchemes |-> [i \in 1..Len(schemes) |->
                                <<schemes[i][1], extractSecurityScheme(schemes[i][2])>>]]
        @@ (IF Has(doc, "info") THEN Pick(doc.info, {"title", "version", "description"})
            ELSE EmptyObject)

extractFromSpec(doc) ==
    LET schemes == IF Has(doc, "components") /\ Has(doc.components, "securitySchemes")
                   THEN SelectSeq(doc.components.securitySchemes,
                                  LAMBDA entry : ~isReference(entry[2]))
                   ELSE <<>>
        entries == IF Has(doc, "paths")
                   THEN SelectSeq(doc.paths, LAMBDA entry : ~isReference(entry[2]))
                   ELSE <<>>
    IN  [baseUrl         |-> IF Has(doc, "servers") /\ doc.servers # <<>>
                             THEN StrOr(doc.servers[1], "url", <<>>)
                             ELSE <<>>,
         endpoints       |-> flatten([i \in 1..Len(entries) |->
                                        endpointsOfPath(entries[i][1], entries[i][2])]),
         securitySchemes |-> [i \in 1..Len(schemes) |->
                                <<schemes[i][1], extractSecurityScheme(schemes[i][2])>>]]
        @@ (IF Has(doc, "info") THEN Pick(doc.info, {"title", "version", "description"})
            ELSE EmptyObject)

(***************************************************************************)
(* mapper.ts: endpoints -> tool definitions.                               *)
(*                                                                         *)
(* inputSchema.properties is a sequence of <<name, schema>> entries in     *)
(* insertion order.  Text that the code assembles from opaque strings      *)
(* (summary, description) is a sequence of text pieces; "" is <<>>.        *)
(* The optional argument enabledPaths is <<>> when it is not supplied and  *)
(* <<S>> when the set S is supplied.                                       *)
(***************************************************************************)
\* a key that is already there keeps its first value
setPropertyKeepFirst(entries, key, value) ==
    IF \E i \in 1..Len(entries) : entries[i][1] = key
    THEN entries
    ELSE Append(entries, <<key, value>>)

\* obj[key] = value on an insertion-ordered object
setProperty(entries, key, value) ==
    IF \E i \in 1..Len(entries) : entries[i][1] = key
    THEN [i \in 1..Len(entries) |-> IF entries[i][1] = key THEN <<key, value>> ELSE entries[i]]
    ELSE Append(entries, <<key, value>>)

\* `${endpoint.method.toLowerCase()}:${endpoint.path}`
getEndpointKeyLowerCase(endpoint) == toLowerCase(endpoint.method) \o <<":">> \o endpoint.path

\* `${endpoint.method}:${endpoint.path}`
getEndpointKey(endpoint) == endpoint.method \o <<":">> \o endpoint.path

getAllEndpointKeys(endpoints) == [i \in 1..Len(endpoints) |-> getEndpointKey(endpoints[i])]

\* { ...param.schema, description: param.description || param.schema.description }
parameterProperty(param) ==
    (IF Has(param, "description") /\ param.description # <<>>
     THEN [description |-> param.description]
     ELSE Pick(param.schema, {"description"}))
    @@ param.schema

RECURSIVE parameterProperties(_, _)
\* the loop over endpoint.parameters: properties[param.name] = ...
parameterProperties(params, properties) ==
    IF params = <<>> THEN properties
    ELSE parameterProperties(Tail(params),
                             setProperty(properties, Head(params).name,
                                         parameterProperty(Head(params))))

\* the names pushed to `required` by the loop over endpoint.parameters
requiredParameters(params) ==
    [i \in 1..Len(SelectSeq(params, LAMBDA param : param.required)) |->
        SelectSeq(params, LAMBDA param : param.required)[i].name]

\* schema.required = required, whatever its length
withRequiredAlways(schema, required) == [required |-> required] @@ schema

\* if (required.length > 0) schema.required = required
withRequired(schema, required) ==
    IF Len(required) > 0 THEN [required |-> required] @@ schema ELSE schema

\* { description: "The JSON request body.", ...endpoint.requestBody.schema }
buildInputSchemaKeepBodyDescription(endpoint) ==
    LET hasBody    == Has(endpoint, "requestBody")
        paramProps == parameterProperties(endpoint.parameters, <<>>)
        properties == IF hasBody
                      THEN setProperty(paramProps, "requestBody",
                                       endpoint.requestBody.schema
                                           @@ [description |-> <<"The JSON request body.">>])
                      ELSE paramProps
        required   == requiredParameters(endpoint.parameters)
                          \o (IF hasBody /\ endpoint.requestBody.required
                              THEN <<"requestBody">> ELSE <<>>)
    IN  withRequired([type |-> "object", properties |-> properties], required)

buildInputSchema(endpoint) ==
    LET hasBody    == Has(endpoint, "requestBody")
        paramProps == parameterProperties(endpoint.parameters, <<>>)
        properties == IF hasBody
                      THEN setProperty(paramProps, "requestBody",
                                       [description |-> <<"The JSON request body.">>]
                                           @@ endpoint.requestBody.schema)
                      ELSE paramProps
        required   == requiredParameters(endpoint.parameters)
                          \o (IF hasBody /\ endpoint.requestBody.required
                              THEN <<"requestBody">> ELSE <<>>)
    IN  withRequired([type |-> "object", properties |-> properties], required)

\* the description appended whenever there is one, equal to the summary or not
toolDescriptionAppendAlways(endpoint) ==
    LET summary == StrOr(endpoint, "summary",
                         <<"Executes ">> \o endpoint.method \o <<" ">> \o endpoint.path)
    IN  IF Has(endpoint, "description") /\ endpoint.description # <<>>
        THEN summary \o <<"\n\n">> \o endpoint.description
        ELSE summary

\* let description = endpoint.summary || `Executes ...`; if (...) description += ...
toolDescription(endpoint) ==
    LET summary == StrOr(endpoint, "summary",
                         <<"Executes ">> \o endpoint.method \o <<" ">> \o endpoint.path)
    IN  IF /\ Has(endpoint, "description")
           /\ endpoint.description # <<>>
           /\ (Has(endpoint, "summary") => endpoint.description # endpoint.summary)
        THEN summary \o <<"\n\n">> \o endpoint.description
        ELSE summary

mapEndpointToTool(endpoint) ==
    LET description == toolDescription(endpoint)
    IN  [name            |-> endpoint.operationId,
         description     |-> description,
         inputSchema     |-> buildInputSchema(endpoint),
         httpMethod      |-> toLowerCase(endpoint.method),
         pathTemplate    |-> endpoint.path,
         parameters      |-> endpoint.parameters,
         securitySchemes |-> endpoint.securitySchemes]
        @@ (IF Has(endpoint, "requestBody")
            THEN [requestBodyContentType |-> endpoint.requestBody.contentType]
            ELSE EmptyObject)

\* an empty set taken for "no filter": if (!enabledPaths || enabledPaths.size === 0)
isEnabledEmptyMeansAll(endpoint, enabled) ==
    IF enabled = <<>> \/ enabled[1] = {} THEN TRUE
    ELSE (endpoint.method \o <<":">> \o endpoint.path) \in enabled[1]

\* the key built from the lower-case method the tool carries
isEnabledLowerKey(endpoint, enabled) ==
    IF enabled = <<>> THEN TRUE
    ELSE (toLowerCase(endpoint.method) \o <<":">> \o endpoint.path) \in enabled[1]

\* the predicate of endpoints.filter(...)
isEnabled(endpoint, enabled) ==
    IF enabled = <<>> THEN TRUE
    ELSE (endpoint.method \o <<":">> \o endpoint.path) \in enabled[1]

mapToMcpTools(endpoints, enabled) ==
    LET kept == SelectSeq(endpoints, LAMBDA endpoint : isEnabled(endpoint, enabled))
    IN  [i \in 1..Len(kept) |-> mapEndpointToTool(kept[i])]

(***************************************************************************)
(* generator.ts: tool definitions -> generated files.                      *)
(*                                                                         *)
(* GeneratedFiles is a sequence of <<file path, text>> entries in          *)
(* insertion order.  A text is the sequence of the pieces its template     *)
(* puts together, each piece a pair <<literal, interpolated value>>; a     *)
(* conditional fragment of a template is a piece that is there or not.     *)
(* Opaque strings of the options (name, version, URLs, paths) are          *)
(* sequences of text pieces, "" being <<>>.                                *)
(***************************************************************************)
Piece(literal) == <<literal, <<>>>>

\* text.includes(literal), for the literal of a piece
Contains(text, literal) == \E i \in 1..Len(text) : text[i][1] = literal

\* options.oauth2Config?.authorizationServerUrl, truthy
hasAuthorizationServerUrl(opts) ==
    /\ Has(opts, "oauth2Config")
    /\ Has(opts.oauth2Config, "authorizationServerUrl")
    /\ opts.oauth2Config.authorizationServerUrl # <<>>

\* the dependency also declared when only localSdkPath is given
emcySdkDependencyIfLocalPath(opts) ==
    IF BoolOr(opts, "emcyEnabled") \/ (Has(opts, "localSdkPath") /\ opts.localSdkPath # <<>>)
    THEN << <<"@emcy/sdk",
              IF Has(opts, "localSdkPath") /\ opts.localSdkPath # <<>>
              THEN <<"file:">> \o opts.localSdkPath
              ELSE <<"^0.1.0">> >> >>
    ELSE <<>>

\* ...(options.emcyEnabled ? { "@emcy/sdk": ... } : {})
emcySdkDependency(opts) ==
    IF BoolOr(opts, "emcyEnabled")
    THEN << <<"@emcy/sdk",
              IF Has(opts, "localSdkPath") /\ opts.localSdkPath # <<>>
              THEN <<"file:">> \o opts.localSdkPath
              ELSE <<"^0.1.0">> >> >>
    ELSE <<>>

generatePackageJson(opts) ==
    LET emcySdk == emcySdkDependency(opts)
        pkg == [name         |-> opts.name,
                version      |-> StrOr(opts, "version", <<"1.0.0">>),
                dependencies |-> << <<"@modelcontextprotocol/sdk", <<"^1.10.0">> >>,
                                    <<"axios", <<"^1.9.0">> >>,
                                    <<"dotenv", <<"^16.4.5">> >>,
                                    <<"hono", <<"^4.7.7">> >>,
                                    <<"@hono/node-server", <<"^1.14.1">> >> >> \o emcySdk]
    IN  << <<"JSON.stringify(pkg)", pkg>> >>

generateTsConfig == << Piece("JSON.stringify(config)") >>

\* one entry of toolDefinitionMap
toolDefinition(tool) ==
    <<"toolDefinition",
      [name                   |-> tool.name,
       description            |-> tool.description,
       inputSchema            |-> tool.inputSchema,
       method                 |-> tool.httpMethod,
       pathTemplate           |-> tool.pathTemplate,
       parameters             |-> tool.parameters,
       requestBodyContentType |-> IF Has(tool, "requestBodyContentType")
                                     /\ tool.requestBodyContentType # ""
                                  THEN tool.requestBodyContentType
                                  ELSE "undefined",
       securitySchemes        |-> tool.securitySchemes]>>

\* a fragment left out only when emcyEnabled is false: options.emcyEnabled !== false
emcyFragmentUnlessFalse(opts, pieces) ==
    IF Has(opts, "emcyEnabled") /\ ~opts.emcyEnabled THEN <<>> ELSE pieces

\* options.emcyEnabled ? `...` : ""
emcyFragment(opts, pieces) == IF BoolOr(opts, "emcyEnabled") THEN pieces ELSE <<>>

generateServerEntry(toolList, opts, securitySchemes) ==
    LET toolDefinitions == [i \in 1..Len(toolList) |-> toolDefinition(toolList[i])]
        emcyImport == emcyFragment(opts, << Piece("import { EmcyTelemetry } from '@emcy/sdk';") >>)
        emcyInit   == emcyFragment(opts, << Piece("new EmcyTelemetry({"),
                                            Piece("emcy.setServerInfo(") >>)
        emcyTrace  == emcyFragment(opts, << Piece("emcy.trace(") >>)
        hasMcpOAuth == hasAuthorizationServerUrl(opts)
        mcpOAuthConfig ==
            IF hasMcpOAuth
            THEN << <<"const MCP_OAUTH_CONFIG = {",
                      [authorizationServerUrl |-> opts.oauth2Config.authorizationServerUrl,
                       scopesSupported        |-> ArrOr(opts.oauth2Config, "scopes")]>> >>
            ELSE <<>>
    IN  << <<"MCP Server: ", opts.name>>, Piece("imports") >>
        \o emcyImport
        \o << <<"SERVER_NAME = ", opts.name>>,
              <<"SERVER_VERSION = ", StrOr(opts, "version", <<"1.0.0">>)>>,
              <<"API_BASE_URL = ", opts.baseUrl>>,
              Piece("interface McpToolDefinition"),
              <<"const securitySchemes = ", securitySchemes>> >>
        \o mcpOAuthConfig
        \o emcyInit
        \o << Piece("const toolDefinitionMap = new Map([") >>
        \o toolDefinitions
        \o << Piece("ListToolsRequestSchema handler"), Piece("CallToolRequestSchema handler") >>
        \o emcyTrace
        \o << Piece("executeRequest"), Piece("applySecurityHeaders"), Piece("main") >>

generateTransport(opts) ==
    LET hasOAuth == hasAuthorizationServerUrl(opts)
        oauthImports == IF hasOAuth THEN << Piece("declare const MCP_OAUTH_CONFIG") >> ELSE <<>>
        protectedResourceMetadataEndpoint ==
            IF hasOAuth
            THEN << Piece("app.get('/.well-known/oauth-protected-resource'") >>
            ELSE <<>>
        oauthMiddleware == IF hasOAuth THEN << Piece("const validateToken = ") >> ELSE <<>>
        mcpEndpointWithAuth ==
            IF hasOAuth
            THEN << <<"app.all('/mcp'", <<"validateToken">> >> >>
            ELSE << <<"app.all('/mcp'", <<>> >> >>
        oauthStartupMessage == IF hasOAuth THEN << Piece("OAuth startup message") >> ELSE <<>>
    IN  << <<"HTTP Transport for MCP",
             IF hasOAuth THEN <<"With OAuth 2.0 authentication (RFC 9728)">>
                         ELSE <<"No authentication configured">> >>,
           Piece("imports") >>
        \o oauthImports
        \o << Piece("const transports = new Map()"), Piece("cors") >>
        \o protectedResourceMetadataEndpoint
        \o oauthMiddleware
        \o << <<"app.get('/health'",
                (IF hasOAuth THEN <<"protected-resource-metadata">> ELSE <<>>)
                    \o (IF hasOAuth THEN <<"oauth">> ELSE <<>>)>> >>
        \o mcpEndpointWithAuth
        \o << Piece("session handling"), Piece("app.get('/sse'"), Piece("serve") >>
        \o oauthStartupMessage

Digits == <<"0","1","2","3","4","5","6","7","8","9">>

\* schemeName.replace(/[^a-zA-Z0-9]/g, "_").toUpperCase()
envKeyOf(schemeName) ==
    toUpperCase([i \in 1..Len(schemeName) |->
                    IF \/ IndexIn(schemeName[i], LowerLetters) > 0
                       \/ IndexIn(schemeName[i], UpperLetters) > 0
                       \/ IndexIn(schemeName[i], Digits) > 0
                    THEN schemeName[i]
                    ELSE "_"])

RECURSIVE addAll(_, _)
\* new Set<string>() filled by add(): the distinct names in first-insertion order
addAll(names, used) ==
    IF names = <<>> THEN used
    ELSE addAll(Tail(names),
                IF \E i \in 1..Len(used) : used[i] = Head(names)
                THEN used ELSE Append(used, Head(names)))

\* the line pushed for one used scheme, if any
credentialLine(schemeName, securitySchemes) ==
    LET scheme == Lookup(securitySchemes, schemeName)
    IN  IF \E sc \in scheme : sc.type = "apiKey"
        THEN << <<"API_KEY_", envKeyOf(schemeName)>> >>
        ELSE IF \E sc \in scheme : sc.type = "http" /\ Has(sc, "scheme") /\ sc.scheme = "bearer"
        THEN << <<"BEARER_TOKEN_", envKeyOf(schemeName)>> >>
        ELSE <<>>

\* applySecurityHeaders of the emitted server: the environment variable it reads
\* for a scheme of the table, if any (an oauth2 scheme falls back to
\* UPSTREAM_ACCESS_TOKEN when this one is not set)
securityEnvVariable(schemeName, securitySchemes) ==
    LET scheme == Lookup(securitySchemes, schemeName)
    IN  IF \E sc \in scheme : sc.type = "apiKey"
        THEN << <<"API_KEY_", envKeyOf(schemeName)>> >>
        ELSE IF \E sc \in scheme : sc.type = "http" /\ Has(sc, "scheme") /\ sc.scheme = "bearer"
        THEN << <<"BEARER_TOKEN_", envKeyOf(schemeName)>> >>
        ELSE IF \E sc \in scheme : sc.type = "oauth2"
        THEN << <<"OAUTH_ACCESS_TOKEN_", envKeyOf(schemeName)>> >>
        ELSE <<>>

\* the OAuth lines pushed whenever options.oauth2Config is there
envOAuthLinesIfConfig(opts) ==
    IF Has(opts, "oauth2Config")
    THEN << Piece(""),
            Piece("# MCP OAuth 2.0 Configuration (RFC 9728)"),
            Piece("# This MCP server acts as an OAuth Resource Server"),
            <<"OAUTH_AUTHORIZATION_SERVER=",
              StrOr(opts.oauth2Config, "authorizationServerUrl", <<"undefined">>)>>,
            Piece("# The public URL of this MCP server (used in Protected Resource Metadata)"),
            Piece("# MCP_RESOURCE_URL=https://your-mcp-server.example.com"),
            Piece("# Set to 'false' to disable OAuth authentication (for development only)"),
            Piece("# MCP_REQUIRE_AUTH=true") >>
    ELSE <<>>

\* if (options.oauth2Config?.authorizationServerUrl) { lines.push(...) }
envOAuthLines(opts) ==
    IF hasAuthorizationServerUrl(opts)
    THEN << Piece(""),
            Piece("# MCP OAuth 2.0 Configuration (RFC 9728)"),
            Piece("# This MCP server acts as an OAuth Resource Server"),
            <<"OAUTH_AUTHORIZATION_SERVER=", opts.oauth2Config.authorizationServerUrl>>,
            Piece("# The public URL of this MCP server (used in Protected Resource Metadata)"),
            Piece("# MCP_RESOURCE_URL=https://your-mcp-server.example.com"),
            Piece("# Set to 'false' to disable OAuth authentication (for development only)"),
            Piece("# MCP_REQUIRE_AUTH=true") >>
    ELSE <<>>

\* the lines of the file; lines.join("\n") puts one line after the other
generateEnvExample(toolList, securitySchemes, opts) ==
    LET lines == << Piece("# API Configuration"),
                    <<"API_BASE_URL=", opts.baseUrl>>,
                    Piece(""),
                    Piece("# Emcy Telemetry (optional)"),
                    Piece("# Set these to enable telemetry to Emcy platform"),
                    Piece("# EMCY_API_KEY=your-api-key-from-emcy-dashboard"),
                    Piece("# EMCY_TELEMETRY_URL=http://localhost:5140/api/v1/telemetry"),
                    Piece("# EMCY_MCP_SERVER_ID=mcp_xxxxxxxxxxxx"),
                    Piece("# EMCY_DEBUG=false"),
                    Piece(""),
                    Piece("# Server Port (for HTTP transport)"),
                    Piece("PORT=3000") >>
        oauthLines == envOAuthLines(opts)
        usedSchemes == addAll(flatten([i \in 1..Len(toolList) |-> toolList[i].securitySchemes]),
                              <<>>)
        hasNonOAuthSchemes ==
            \E i \in 1..Len(usedSchemes) :
                \A sc \in Lookup(securitySchemes, usedSchemes[i]) : sc.type # "oauth2"
        credentialLines ==
            IF hasNonOAuthSchemes
            THEN << Piece(""), Piece("# Security Credentials") >>
                 \o flatten([i \in 1..Len(usedSchemes) |->
                                credentialLine(usedSchemes[i], securitySchemes)])
            ELSE <<>>
    IN  lines \o oauthLines \o credentialLines

generateReadme(opts) ==
    << <<"# ", opts.name>>,
       Piece("## Quick Start"),
       <<"API_BASE_URL: Base URL of the API (default: ", opts.baseUrl>>,
       Piece("## AI Client Configuration"),
       <<"mcpServers (Cursor, HTTP)", opts.name>>,
       <<"mcpServers (Cursor, stdio)", opts.name>>,
       <<"mcpServers (Claude Desktop)", opts.name>>,
       Piece("## Transport Endpoints"),
       Piece("## Troubleshooting") >>

\* the environment template written before the transport
generateMcpServerEnvFirst(toolList, opts, securitySchemes) ==
    LET f1 == setProperty(<<>>, "package.json", generatePackageJson(opts))
        f2 == setProperty(f1, "tsconfig.json", generateTsConfig)
        f3 == setProperty(f2, "src/index.ts", generateServerEntry(toolList, opts, securitySchemes))
        f4 == setProperty(f3, ".env.example", generateEnvExample(toolList, securitySchemes, opts))
        f5 == setProperty(f4, "src/transport.ts", generateTransport(opts))
    IN  setProperty(f5, "README.md", generateReadme(opts))

\* files[key] = text on the insertion-ordered object `files`: same as setProperty
generateMcpServer(toolList, opts, securitySchemes) ==
    LET f1 == setProperty(<<>>, "package.json", generatePackageJson(opts))
        f2 == setProperty(f1, "tsconfig.json", generateTsConfig)
        f3 == setProperty(f2, "src/index.ts", generateServerEntry(toolList, opts, securitySchemes))
        f4 == setProperty(f3, "src/transport.ts", generateTransport(opts))
        f5 == setProperty(f4, ".env.example", generateEnvExample(toolList, securitySchemes, opts))
    IN  setProperty(f5, "README.md", generateReadme(opts))

(***************************************************************************)
(* The emitted src/index.ts at run time.                                   *)
(*                                                                         *)
(* The server reads its constants from the generated text: the piece       *)
(* "const securitySchemes = " carries the scheme table and each piece      *)
(* "toolDefinition" one entry of toolDefinitionMap.  process.env is a      *)
(* function from variable names to values, a name being the pair of the    *)
(* literal prefix and the interpolated key; a value is a sequence of text  *)
(* pieces, "" being <<>>.  The `headers` object is a sequence of           *)
(* <<name, value>> entries, header names being sequences of characters.    *)
(***************************************************************************)
\* the value interpolated after a literal of the generated text
interpolation(text, literal) ==
    text[CHOOSE i \in 1..Len(text) : text[i][1] = literal][2]

\* const securitySchemes = ${JSON.stringify(securitySchemes)}
bakedSecuritySchemes(text) == interpolation(text, "const securitySchemes = ")

\* the values of toolDefinitionMap, in insertion order
bakedToolDefinitions(text) ==
    LET entries == SelectSeq(text, LAMBDA piece : piece[1] = "toolDefinition")
    IN  [i \in 1..Len(entries) |-> entries[i][2]]

Accept == <<"A","c","c","e","p","t">>
Authorization == <<"a","u","t","h","o","r","i","z","a","t","i","o","n">>
ContentType == <<"c","o","n","t","e","n","t","-","t","y","p","e">>

\* process.env[name] where the code tests it for truthiness: <<>> stands for a
\* variable that is not set and for one set to ""
envOr(environment, name) ==
    IF name \in DOMAIN environment THEN environment[name] ELSE <<>>

\* the loop over def.parameters of executeRequest, for the header parameters:
\* headers[param.name.toLowerCase()] = String(value)
RECURSIVE headerParameters(_, _, _)
headerParameters(params, args, hdrs) ==
    IF params = <<>> THEN hdrs
    ELSE headerParameters(Tail(params), args,
                          IF Head(params).in = "header" /\ Lookup(args, Head(params).name) # {}
                          THEN setProperty(hdrs, toLowerCase(Head(params).name),
                                           CHOOSE value \in Lookup(args, Head(params).name) : TRUE)
                          ELSE hdrs)

\* the API key sent wherever the scheme says the key goes
securityHeaderAnyLocation(schemeName, securitySchemes, environment) ==
    LET scheme == Lookup(securitySchemes, schemeName)
        envKey == envKeyOf(schemeName)
        apiKey == envOr(environment, <<"API_KEY_", envKey>>)
        bearer == envOr(environment, <<"BEARER_TOKEN_", envKey>>)
        oauth  == IF envOr(environment, <<"OAUTH_ACCESS_TOKEN_", envKey>>) # <<>>
                  THEN envOr(environment, <<"OAUTH_ACCESS_TOKEN_", envKey>>)
                  ELSE envOr(environment, Piece("UPSTREAM_ACCESS_TOKEN"))
    IN  IF scheme = {} THEN <<>>
        ELSE LET sc == CHOOSE sc \in scheme : TRUE
             IN  IF sc.type = "apiKey"
                 THEN IF apiKey # <<>> /\ Has(sc, "name")
                      THEN << <<toLowerCase(sc.name), apiKey>> >>
                      ELSE <<>>
                 ELSE IF sc.type = "http" /\ Has(sc, "scheme") /\ sc.scheme = "bearer"
                 THEN IF bearer # <<>> THEN << <<Authorization, <<"Bearer ">> \o bearer>> >>
                      ELSE <<>>
                 ELSE IF sc.type = "oauth2"
                 THEN IF oauth # <<>> THEN << <<Authorization, <<"Bearer ">> \o oauth>> >>
                      ELSE <<>>
                 ELSE <<>>

\* one turn of the loop of applySecurityHeaders: the header entry it assigns for
\* the scheme name, if any
securityHeader(schemeName, securitySchemes, environment) ==
    LET scheme == Lookup(securitySchemes, schemeName)
        envKey == envKeyOf(schemeName)
        apiKey == envOr(environment, <<"API_KEY_", envKey>>)
        bearer == envOr(environment, <<"BEARER_TOKEN_", envKey>>)
        oauth  == IF envOr(environment, <<"OAUTH_ACCESS_TOKEN_", envKey>>) # <<>>
                  THEN envOr(environment, <<"OAUTH_ACCESS_TOKEN_", envKey>>)
                  ELSE envOr(environment, Piece("UPSTREAM_ACCESS_TOKEN"))
    IN  IF scheme = {} THEN <<>>
        ELSE LET sc == CHOOSE sc \in scheme : TRUE
             IN  IF sc.type = "apiKey"
                 THEN IF apiKey # <<>> /\ Has(sc, "in") /\ sc.in = "header" /\ Has(sc, "name")
                      THEN << <<toLowerCase(sc.name), apiKey>> >>
                      ELSE <<>>
                 ELSE IF sc.type = "http" /\ Has(sc, "scheme") /\ sc.scheme = "bearer"
                 THEN IF bearer # <<>> THEN << <<Authorization, <<"Bearer ">> \o bearer>> >>
                      ELSE <<>>
                 ELSE IF sc.type = "oauth2"
                 THEN IF oauth # <<>> THEN << <<Authorization, <<"Bearer ">> \o oauth>> >>
                      ELSE <<>>
                 ELSE <<>>

RECURSIVE applySecurityHeaders(_, _, _, _)
\* applySecurityHeaders(headers, schemeNames), with the module constant
\* securitySchemes and process.env it reads
applySecurityHeaders(hdrs, schemeNames, securitySchemes, environment) ==
    IF schemeNames = <<>> THEN hdrs
    ELSE LET entry == securityHeader(Head(schemeNames), securitySchemes, environment)
         IN  applySecurityHeaders(IF entry = <<>> THEN hdrs
                                  ELSE setProperty(hdrs, entry[1][1], entry[1][2]),
                                  Tail(schemeNames), securitySchemes, environment)

(***************************************************************************)
(* The emitted src/transport.ts at run time.                               *)
(*                                                                         *)
(* A request header is a sequence of at most one value, <<>> when the      *)
(* request does not carry it; the value "" is <<>>.  A session id is the   *)
(* pair <<"uuid", n>>, crypto.randomUUID() returning a value never seen    *)
(* before.  The Map `transports` is a sequence of <<session id, transport>>*)
(* entries, a transport being its position in `created`.  The transport    *)
(* class and the Server are the SDK's: the model takes from them that      *)
(* handleRequest reports the session through onsessioninitialized when the *)
(* request is an initialize request, and that a transport that closes      *)
(* calls its onclose.                                                      *)
(***************************************************************************)
\* the identifiers the compiled transport.ts binds in its module scope; a
\* `declare const` is erased by the compiler and binds nothing
transportBindings(text) ==
    (IF Contains(text, "imports")
     THEN {"Hono", "cors", "serve", "Server", "SERVER_NAME", "SERVER_VERSION"}
     ELSE {})
    \cup (IF Contains(text, "const transports = new Map()")
          THEN {"WebStandardStreamableHTTPServerTransport", "transports"}
          ELSE {})

\* the bindings of the global scope of Node
NodeGlobals == {"process", "console", "crypto", "globalThis"}

\* whether evaluating the identifier in transport.ts yields a value rather
\* than a ReferenceError
isBound(identifier, text) == identifier \in transportBindings(text) \cup NodeGlobals

\* app.all("/mcp", validateToken, ...) rather than app.all("/mcp", ...)
hasValidateToken(text) == interpolation(text, "app.all('/mcp'") = <<"validateToken">>

\* requireAuth: process.env.MCP_REQUIRE_AUTH !== 'false'
requireAuth(environment) == envOr(environment, Piece("MCP_REQUIRE_AUTH")) # <<"false">>

Bearer == <<"B","e","a","r","e","r"," ">>

\* str.startsWith(prefix)
startsWithText(str, prefix) ==
    Len(str) >= Len(prefix) /\ SubSeq(str, 1, Len(prefix)) = prefix

\* str.substring(7)
substring7(str) == SubSeq(str, 8, Len(str))

WwwAuthenticate == <<"Bearer resource_metadata=", "/.well-known/oauth-protected-resource">>

\* the middleware validateToken: [next |-> TRUE] when it calls next(), the
\* response otherwise; an exception it throws is answered by the framework
\* with status 500
validateToken(req, text, environment) ==
    IF ~isBound("MCP_OAUTH_CONFIG", text)
    THEN [status |-> 500, error |-> "ReferenceError: MCP_OAUTH_CONFIG is not defined"]
    ELSE IF ~requireAuth(environment) THEN [next |-> TRUE]
    ELSE IF \/ req.authorization = <<>>
            \/ req.authorization[1] = <<>>
            \/ ~startsWithText(req.authorization[1], Bearer)
    THEN [status |-> 401, error |-> "unauthorized", wwwAuthenticate |-> WwwAuthenticate]
    ELSE IF Len(substring7(req.authorization[1])) < 10
    THEN [status |-> 401, error |-> "invalid_token",
          wwwAuthenticate |-> WwwAuthenticate \o <<", error=invalid_token">>]
    ELSE [next |-> TRUE]

\* a session id that is not registered begins a new session
sessionRouteNewWhenUnknown(header, table) ==
    IF header # <<>> /\ header[1] # <<>> /\ Lookup(table, header[1]) # {}
    THEN "existing"
    ELSE "new"

\* the three branches of the /mcp handler on c.req.header('mcp-session-id')
sessionRoute(header, table) ==
    IF header # <<>> /\ header[1] # <<>> /\ Lookup(table, header[1]) # {}
    THEN "existing"
    ELSE IF header = <<>> \/ header[1] = <<>>
    THEN "new"
    ELSE "notFound"

\* transports.set(newSessionId, transport)
onsessioninitialized(newSessionId, transport, table) ==
    setProperty(table, newSessionId, transport)

\* a transport that closes stays in the table
oncloseKeepsSession(transport, objects, table) == table

\* transport.onclose: const sid = transport.sessionId; if (sid) transports.delete(sid)
onclose(transport, objects, table) ==
    IF objects[transport].sessionId # <<>>
    THEN SelectSeq(table, LAMBDA entry : entry[1] # objects[transport].sessionId[1])
    ELSE table

(***************************************************************************)
(* cli.ts: the generate command.                                           *)
(*                                                                         *)
(* `values` is the record of the flags parseArgs returns; a flag that was  *)
(* not given is a field the record does not have, the boolean flags have   *)
(* their default.  The file system at resolvedOutput is a record: whether  *)
(* the directory exists, and its entries as <<relative path, text>> in     *)
(* creation order.  The document that --url names is `api`; a file that    *)
(* is not there is the record [notFound |-> TRUE].                         *)
(***************************************************************************)
RECURSIVE replaceRuns(_, _)
\* text.replace(/[^a-z0-9]+/g, '-')
replaceRuns(str, inRun) ==
    IF str = <<>> THEN <<>>
    ELSE IF IndexIn(Head(str), LowerLetters) > 0 \/ IndexIn(Head(str), Digits) > 0
    THEN <<Head(str)>> \o replaceRuns(Tail(str), FALSE)
    ELSE (IF inRun THEN <<>> ELSE <<"-">>) \o replaceRuns(Tail(str), TRUE)

\* text.replace(/^-|-$/g, '')
trimHyphens(str) ==
    LET rest == IF str # <<>> /\ str[1] = "-" THEN Tail(str) ELSE str
    IN  IF rest # <<>> /\ rest[Len(rest)] = "-" THEN SubSeq(rest, 1, Len(rest) - 1) ELSE rest

slugify(text) == trimHyphens(replaceRuns(toLowerCase(text), FALSE))

\* JSON.parse of the texts given to --prompts-json, and Array.isArray of the result
PromptsIsArray(text) == text = "[]"

\* only a populated directory is a conflict
outputConflictIfPopulated(dir, flags) == dir.exists /\ dir.entries # <<>> /\ ~flags.force

\* existsSync(resolvedOutput) && !values.force
outputConflict(dir, flags) == dir.exists /\ ~flags.force

\* the GeneratorOptions that runGenerate hands to generateMcpServer
generatorOptions(flags, parsedDoc) ==
    [name        |-> StrOr(flags, "name", slugify(parsedDoc.title)),
     version     |-> StrOr(flags, "version", StrOr(parsedDoc, "version", <<"1.0.0">>)),
     baseUrl     |-> StrOr(flags, "base-url",
                           IF parsedDoc.baseUrl # <<>> THEN parsedDoc.baseUrl
                           ELSE <<"http://localhost:3000">>),
     emcyEnabled |-> flags.emcy]
    @@ (IF Has(flags, "local-sdk") THEN [localSdkPath |-> flags["local-sdk"]] ELSE EmptyObject)
    @@ (IF Has(flags, "prompts-json") /\ flags["prompts-json"] # ""
        THEN [prompts |-> <<>>] ELSE EmptyObject)

(***************************************************************************)
(* Inputs: bounded families of documents, filters and options.             *)
(***************************************************************************)
\* the sequences of at most n distinct elements of S
InjSeqs(S, n) ==
    UNION {{q \in [1..k -> S] : \A i, j \in 1..k : i # j => q[i] # q[j]} : k \in 0..n}

\* the sequences of at most n elements of S
SeqsUpTo(S, n) == UNION {[1..k -> S] : k \in 0..n}

RECURSIVE UnionOf(_)
\* UNION sets, taken two sets at a time
UnionOf(sets) ==
    IF sets = {} THEN {}
    ELSE LET first == CHOOSE set \in sets : TRUE
         IN  first \cup UnionOf(sets \ {first})

\* the path items over one base record: at most n operations, the method keys
\* distinct and in any declaration order
PathItems(shape, n) ==
    UnionOf({{[ops |-> [i \in 1..Len(ms) |-> <<ms[i], os[i]>>]] @@ base
              : base \in shape.itemBases, os \in [1..Len(ms) -> shape.operations]}
           : ms \in InjSeqs(shape.methods, n)})
    \cup shape.references

OperationCount(pathItem) == IF Has(pathItem, "ops") THEN Len(pathItem.ops) ELSE 0

RECURSIVE PathEntries(_, _, _)
\* the values of api.paths: distinct path templates of pathPool in any order,
\* with at most n operations in all
PathEntries(shape, pathPool, n) ==
    LET items == PathItems(shape, n)
    IN  {<<>>} \cup
        UnionOf({{<< <<p, pathItem>> >> \o rest
                    : pathItem \in {item \in items : OperationCount(item) = k},
                      rest \in PathEntries(shape, pathPool \ {p}, n - k)}
                 : p \in pathPool, k \in 0..n})

Get == <<"g","e","t">>
Post == <<"p","o","s","t">>
Delete == <<"d","e","l","e","t","e">>
Trace == <<"t","r","a","c","e">>

ReferenceNode == ("$ref" :> "#/components/x")

\* test baseOptions of the generator tests
BaseOptions == [name    |-> <<"test-api">>,
                version |-> <<"1.0.0">>,
                baseUrl |-> <<"http://localhost:3000">>]

\* Spec: documents that vary the order of paths and of method keys
OrderShape ==
    [methods    |-> {Get, Delete, Trace},
     operations |-> {EmptyObject},
     itemBases  |-> {[ops |-> <<>>]},
     references |-> {ReferenceNode}]

OrderPaths == {<<"/","b">>, <<"/","{","a","}">>, <<"/","b","y","A">>}

OrderDocuments ==
    {EmptyObject} \cup {[paths |-> entries] : entries \in PathEntries(OrderShape, OrderPaths, MaxOperations)}

\* SpecEndpoint: documents with one operation that vary what the operation holds
ParameterPool ==
    {[name |-> n, in |-> "query"] @@ r
        : n \in {"id", "q"}, r \in {EmptyObject, [required |-> TRUE], [required |-> FALSE]}}

RequestBodyPool ==
    {ReferenceNode,
     [content |-> << <<"application/json", [schema |-> [type |-> "object"]]>> >>],
     [required |-> TRUE,
      content |-> << <<"application/json", [schema |-> [type |-> "object"]]>> >>],
     [required |-> TRUE, content |-> << <<"text/plain", EmptyObject>> >>]}

EndpointOperations ==
    {id @@ params @@ body
        : id \in {EmptyObject, [operationId |-> <<>>], [operationId |-> <<"o","p">>]},
          params \in {EmptyObject} \cup {[parameters |-> ps] : ps \in SeqsUpTo(ParameterPool, MaxParams)},
          body \in {EmptyObject} \cup {[requestBody |-> rb] : rb \in RequestBodyPool}}

EndpointShape ==
    [methods    |-> {Post},
     operations |-> EndpointOperations,
     itemBases  |-> {[ops |-> <<>>],
                     [ops |-> <<>>,
                      parameters |-> <<ReferenceNode,
                                       [name |-> "b", in |-> "path", required |-> TRUE,
                                        schema |-> [type |-> "integer"]]>>]},
     references |-> {}]

\* the document of the end-to-end test: GET and POST /Orders, GET and DELETE /Orders/{id}
Orders == <<"/","O","r","d","e","r","s">>

OrdersSpec ==
    [paths |-> << <<Orders, [ops |-> << <<Get, EmptyObject>>, <<Post, EmptyObject>> >>]>>,
                  <<Orders \o <<"/","{","i","d","}">>,
                    [ops |-> << <<Get, EmptyObject>>, <<Delete, EmptyObject>> >>]>> >>]

EndpointDocuments ==
    {OrdersSpec} \cup
    {[paths |-> entries] : entries \in PathEntries(EndpointShape, {<<"/","a","/","{","b","}">>}, 1)}

\* SpecFilter: small documents, every enabled set over a pool of keys
FilterShape ==
    [methods    |-> {Get, Delete},
     operations |-> {EmptyObject},
     itemBases  |-> {[ops |-> <<>>]},
     references |-> {}]

FilterPaths == {<<"/","a">>, <<"/","{","a","}">>}

FilterDocuments ==
    {[paths |-> entries] : entries \in PathEntries(FilterShape, FilterPaths, MaxFilterOperations)}

\* the keys of every operation a filter document can hold, and keys that differ
\* from one of them in letter case, in a trailing slash or in a parameter name
KeyPool ==
    {toUpperCase(m) \o <<":">> \o p : m \in FilterShape.methods, p \in FilterPaths}
    \cup {<<"g","e","t",":","/","a">>,
          <<"G","E","T",":","/","a","/">>,
          <<"G","E","T",":","/","{","b","}">>}

EnabledPathsPool == {<<>>} \cup {<<S>> : S \in SUBSET KeyPool}

\* SpecGen: small documents, every combination of the options
GenShape ==
    [methods    |-> {Get, Post},
     operations |-> {EmptyObject, [security |-> << << <<"k","e","y">> >> >>]},
     itemBases  |-> {[ops |-> <<>>]},
     references |-> {}]

GenDocuments ==
    {paths @@ components
        : paths \in {[paths |-> entries]
                       : entries \in PathEntries(GenShape, {<<"/","a">>}, MaxGenOperations)},
          components \in {EmptyObject,
                          [components |->
                             [securitySchemes |->
                                << <<<<"k","e","y">>,
                                     [type |-> "apiKey", name |-> "X-Key", in |-> "header"]>> >>]]}}

\* SpecDetail: documents with one operation that vary its texts, the
\* descriptions of its parameter and the media types of its request body
DetailParameters ==
    {[name |-> "q", in |-> "query"] @@ d @@ sch
        : d \in {EmptyObject, [description |-> <<>>], [description |-> <<"parameter text">>]},
          sch \in {EmptyObject,
                   [schema |-> [type |-> "string"]],
                   [schema |-> [type |-> "string", description |-> <<>>]],
                   [schema |-> [type |-> "integer", minimum |-> 1,
                                description |-> <<"schema text">>]]}}

DescribedOperations ==
    {sm @@ d @@ params
        : sm \in {EmptyObject, [summary |-> <<>>], [summary |-> <<"S">>]},
          d \in {EmptyObject, [description |-> <<>>], [description |-> <<"S">>],
                 [description |-> <<"D">>]},
          params \in {EmptyObject} \cup {[parameters |-> <<param>>] : param \in DetailParameters}}

JsonMedia == <<"application/json", [schema |-> [type |-> "object"]]>>
JsonMediaNoSchema == <<"application/json", EmptyObject>>
TextMedia == <<"text/plain", [schema |-> [type |-> "string"]]>>
TextMediaNoSchema == <<"text/plain", EmptyObject>>
XmlMedia == <<"application/xml", [schema |-> [type |-> "array"]]>>

DetailContents ==
    {<<>>, <<JsonMedia>>, <<JsonMediaNoSchema>>, <<TextMedia>>, <<TextMediaNoSchema>>,
     <<TextMedia, JsonMedia>>, <<JsonMedia, TextMedia>>, <<XmlMedia, TextMedia>>,
     <<TextMedia, JsonMediaNoSchema>>, <<JsonMediaNoSchema, TextMedia>>,
     <<TextMediaNoSchema, JsonMedia>>, <<TextMediaNoSchema, XmlMedia>>,
     <<XmlMedia, TextMedia, JsonMedia>>}

BodyOperations ==
    {[requestBody |-> r @@ c]
        : r \in {EmptyObject, [required |-> TRUE]},
          c \in {EmptyObject} \cup {[content |-> content] : content \in DetailContents}}

DetailShape ==
    [methods    |-> {Post},
     operations |-> DescribedOperations \cup BodyOperations,
     itemBases  |-> {[ops |-> <<>>]},
     references |-> {}]

DetailDocuments ==
    {[paths |-> entries] : entries \in PathEntries(DetailShape, {<<"/","a">>}, 1)}

\* SpecEnv: documents that vary the scheme table and the schemes the operations name
KeyScheme == <<"k","e","y">>
TokenScheme == <<"t","-","k">>
OAuthScheme == <<"o","a">>

AllSchemes ==
    << <<KeyScheme, [type |-> "apiKey", name |-> "X-Key", in |-> "header"]>>,
       <<TokenScheme, [type |-> "http", scheme |-> "bearer"]>>,
       <<OAuthScheme, [type |-> "oauth2", flows |-> EmptyObject]>> >>

EnvShape ==
    [methods    |-> {Get, Post},
     operations |-> {EmptyObject,
                     [security |-> << <<KeyScheme>> >>],
                     [security |-> << <<TokenScheme>> >>],
                     [security |-> << <<OAuthScheme>> >>],
                     [security |-> << <<KeyScheme>>, <<OAuthScheme>> >>],
                     [security |-> <<>>],
                     [security |-> << <<KeyScheme, TokenScheme>> >>],
                     [security |-> << <<>>, <<TokenScheme>>, <<KeyScheme, TokenScheme>> >>]},
     itemBases  |-> {[ops |-> <<>>]},
     references |-> {}]

\* the document-wide security requirement, when the document declares one
TopLevelSecurity == {EmptyObject, [security |-> << <<KeyScheme>>, <<TokenScheme>> >>]}

EnvDocuments ==
    {[paths      |-> entries,
      components |-> [securitySchemes |-> SelectSeq(AllSchemes, LAMBDA entry : entry[1] \in S)]]
        @@ top
        : entries \in PathEntries(EnvShape, {<<"/","a">>}, MaxGenOperations),
          S \in SUBSET {KeyScheme, TokenScheme, OAuthScheme},
          top \in TopLevelSecurity}

\* SpecMerge: documents with one operation whose path-level and operation-level
\* parameters share names, one of them the name of the body property
MergePathParameters ==
    {ReferenceNode,
     [name |-> "id", in |-> "path", required |-> TRUE, schema |-> [type |-> "integer"]],
     [name |-> "requestBody", in |-> "query", required |-> TRUE]}

MergeOperationParameters ==
    {ReferenceNode,
     [name |-> "id", in |-> "query", description |-> <<"operation level">>],
     [name |-> "id", in |-> "query", required |-> TRUE, schema |-> [type |-> "string"]],
     [name |-> "requestBody", in |-> "header", required |-> FALSE]}

MergeBodies ==
    {[content |-> << <<"application/json",
                       [schema |-> [type |-> "object", description |-> <<"body text">>]]>> >>]
        @@ r : r \in {EmptyObject, [required |-> TRUE]}}

MergeOperations ==
    {params @@ body
        : params \in {EmptyObject} \cup
                     {[parameters |-> ps] : ps \in SeqsUpTo(MergeOperationParameters, MaxMergeParams)},
          body \in {EmptyObject} \cup {[requestBody |-> rb] : rb \in MergeBodies}}

MergeShape ==
    [methods    |-> {Post},
     operations |-> MergeOperations,
     itemBases  |-> {[ops |-> <<>>]} \cup
                    {[ops |-> <<>>, parameters |-> ps]
                       : ps \in SeqsUpTo(MergePathParameters, MaxMergeParams)},
     references |-> {}]

MergeDocuments ==
    {[paths |-> entries] : entries \in PathEntries(MergeShape, {<<"/","a">>}, 1)}

OptionsPool ==
    {[name |-> name, baseUrl |-> <<"http://localhost:3000">>]
        @@ version @@ emcy @@ sdk @@ oauth
        : name \in {<<"test-api">>, <<"EmcyTelemetry", "-api">>},
          version \in {EmptyObject, [version |-> <<>>], [version |-> <<"2.0.0">>]},
          emcy \in {EmptyObject, [emcyEnabled |-> FALSE], [emcyEnabled |-> TRUE]},
          sdk \in {EmptyObject, [localSdkPath |-> <<>>], [localSdkPath |-> <<"../sdk">>]},
          oauth \in {EmptyObject} \cup
                    {[oauth2Config |-> c]
                       : c \in {EmptyObject,
                                [authorizationServerUrl |-> <<>>],
                                [authorizationServerUrl |-> <<"https://auth.example.com">>],
                                [authorizationServerUrl |-> <<"https://auth.example.com">>,
                                 scopes |-> <<"read">>]}}}

\* SpecFrame: documents whose operation holds everything an endpoint can hold,
\* with enabled sets and options that make every stage do its work
FrameOperation ==
    [summary     |-> <<"S">>,
     parameters  |-> << [name |-> "id", in |-> "query", required |-> TRUE,
                         description |-> <<"parameter text">>,
                         schema |-> [type |-> "integer", minimum |-> 1]] >>,
     requestBody |-> [required |-> TRUE,
                      content |-> << <<"application/json",
                                       [schema |-> [type |-> "object"]]>> >>],
     security    |-> << <<KeyScheme>>, <<TokenScheme>> >>,
     tags        |-> <<"orders">>]

FrameDocuments ==
    {[paths      |-> << <<<<"/","a">>,
                          [ops        |-> ops,
                           parameters |-> << [name |-> "id", in |-> "path", required |-> TRUE,
                                              schema |-> [type |-> "string"]] >>]>> >>,
      components |-> [securitySchemes |-> AllSchemes]]
        : ops \in {<< <<Post, FrameOperation>> >>,
                   << <<Get, FrameOperation>> >>,
                   << <<Post, FrameOperation>>, <<Get, EmptyObject>> >>}}

FrameEnabledPaths ==
    {<<>>, << {} >>,
     << {<<"P","O","S","T",":","/","a">>} >>,
     << {<<"G","E","T",":","/","a">>, <<"P","O","S","T",":","/","a">>} >>}

FrameOptions ==
    {opts \in OptionsPool : /\ opts.name = <<"test-api">>
                            /\ ~Has(opts, "version")
                            /\ ~Has(opts, "localSdkPath")}

\* SpecServer: the generated server answering tool calls.  The documents vary
\* the scheme names of the operation over a fixed scheme table; "gone" is a
\* name the table does not define.
QueryKeyScheme == <<"q","-","k">>
BasicScheme == <<"b",".","s">>
MissingScheme == <<"g","o","n","e">>
XKey == <<"X","-","K","e","y">>
RequestBodyArgument == <<"r","e","q","u","e","s","t","B","o","d","y">>

ServerSchemes ==
    << <<KeyScheme, [type |-> "apiKey", name |-> XKey, in |-> "header"]>>,
       <<QueryKeyScheme, [type |-> "apiKey", name |-> <<"k">>, in |-> "query"]>>,
       <<TokenScheme, [type |-> "http", scheme |-> "bearer"]>>,
       <<BasicScheme, [type |-> "http", scheme |-> "basic"]>>,
       <<OAuthScheme, [type |-> "oauth2", flows |-> EmptyObject]>> >>

ServerSchemeNames ==
    {KeyScheme, QueryKeyScheme, TokenScheme, BasicScheme, OAuthScheme, MissingScheme}

ServerOperations ==
    {[parameters  |-> << [name |-> XKey, in |-> "header"] >>,
      requestBody |-> [content |-> << JsonMedia >>],
      security    |-> << names >>]
        : names \in SeqsUpTo(ServerSchemeNames, MaxSchemeNames)}

ServerDocuments ==
    {[paths      |-> << <<<<"/","a">>, [ops |-> << <<Post, operation>> >>]>> >>,
      components |-> [securitySchemes |-> ServerSchemes]]
        : operation \in ServerOperations}

\* process.env: the variables of the query key and of the basic scheme are
\* always set, each of the others is set or not, and OAUTH_ACCESS_TOKEN_OA may
\* be set to ""
EnvNames ==
    {<<"API_KEY_", <<"K","E","Y">>>>,
     <<"BEARER_TOKEN_", <<"T","_","K">>>>,
     <<"OAUTH_ACCESS_TOKEN_", <<"O","A">>>>,
     Piece("UPSTREAM_ACCESS_TOKEN")}

EnvPool ==
    {[name \in S \cup {<<"API_KEY_", <<"Q","_","K">>>>, <<"BEARER_TOKEN_", <<"B","_","S">>>>} |->
         IF name \in E THEN <<>> ELSE <<"value of ", name[1], name[2]>>]
        : S \in SUBSET EnvNames,
          E \in {{}, {<<"OAUTH_ACCESS_TOKEN_", <<"O","A">>>>}}}

\* the arguments of a tool call: none, the header parameter, and the header
\* parameter with a request body
ArgsPool ==
    {<<>>,
     << <<XKey, <<"client value">>>> >>,
     << <<XKey, <<"client value">>>>, <<RequestBodyArgument, <<"{}">>>> >>}

\* SpecTransport: the generated server answering HTTP requests to /mcp, built
\* without and with OAuth
TransportOptions ==
    {BaseOptions,
     [oauth2Config |-> [authorizationServerUrl |-> <<"https://auth.example.com">>]]
         @@ BaseOptions}

HttpEnvPool ==
    {<<>>} \cup {(Piece("MCP_REQUIRE_AUTH") :> value) : value \in {<<"false">>, <<"true">>}}

\* the session ids a request can carry: none, "", an id that was never issued
\* and the ids the server can issue
SessionHeaders ==
    {<<>>, << <<>> >>} \cup {<< <<"uuid", n>> >> : n \in 0..MaxTransports}

\* the Authorization headers a request can carry: none, a bearer token of ten
\* characters, one of nine, and the scheme in lower case
AuthorizationHeaders ==
    {<<>>,
     << Bearer \o [i \in 1..10 |-> "x"] >>,
     << Bearer \o [i \in 1..9 |-> "x"] >>,
     << toLowerCase(Bearer) \o [i \in 1..10 |-> "x"] >>}

\* SpecCli: the generate command over flags, documents and output directories
CliDocuments ==
    {[notFound |-> TRUE]} \cup
    {[info |-> [title |-> <<"M","y"," ","A","P","I","!">>, version |-> <<"3.0">>]] @@ doc
        : doc \in {OrdersSpec, [paths |-> <<>>]}}

ValuesPool ==
    {[emcy |-> emcy, force |-> force] @@ url @@ name @@ prompts
        : emcy \in BOOLEAN, force \in BOOLEAN,
          url \in {EmptyObject, [url |-> <<"./api.json">>]},
          name \in {EmptyObject, [name |-> <<"s","h","o","p">>]},
          prompts \in {EmptyObject} \cup {("prompts-json" :> text) : text \in {"[]", "{}", "["}}}

OutputDirPool ==
    {[exists |-> FALSE, entries |-> <<>>], [exists |-> TRUE, entries |-> <<>>]}
    \cup {[exists |-> TRUE, entries |-> << <<name, << Piece("old") >> >> >>]
            : name \in {"old.txt", "README.md"}}

\* generateOperationId: every method string and path template within the bounds
MethodStrings == SeqsUpTo({"g", "G"}, MaxMethodLen)

PathStrings == SeqsUpTo({"/", "{", "}", "a"}, MaxPathLen)

(***************************************************************************)
(* The state machine.                                                      *)
(***************************************************************************)
\* the library called directly: no command line, no file system
\* the generator alone: no generated server is running
InitNoServer ==
    /\ processEnv = <<>>
    /\ call = <<>>
    /\ headers = <<>>
    /\ request = <<>>
    /\ response = <<>>
    /\ transports = <<>>
    /\ created = <<>>
    /\ connected = <<>>

InitNoCli ==
    /\ InitNoServer
    /\ values = <<>>
    /\ outputDir = <<>>
    /\ nextFile = 0
    /\ stderr = <<>>
    /\ exitCode = <<>>

InitPipeline(documents, enabledSets, optionSets) ==
    /\ pc = "start"
    /\ api \in documents
    /\ enabledPaths \in enabledSets
    /\ options \in optionSets
    /\ parsed = <<>>
    /\ tools = <<>>
    /\ files = <<>>
    /\ method = <<>>
    /\ path = <<>>
    /\ operationId = <<>>
    /\ InitNoCli

Init == InitPipeline(OrderDocuments, {<<>>}, {BaseOptions})

InitEndpoint == InitPipeline(EndpointDocuments, {<<>>}, {BaseOptions})

InitFilter == InitPipeline(FilterDocuments, EnabledPathsPool, {BaseOptions})

InitGen == InitPipeline(GenDocuments, {<<>>}, OptionsPool)

InitDetail == InitPipeline(DetailDocuments, {<<>>}, {BaseOptions})

InitEnv == InitPipeline(EnvDocuments, {<<>>}, {BaseOptions})

InitMerge == InitPipeline(MergeDocuments, {<<>>}, {BaseOptions})

InitFrame == InitPipeline(FrameDocuments, FrameEnabledPaths, FrameOptions)

InitServer == InitPipeline(ServerDocuments, {<<>>}, {BaseOptions})

InitTransport == InitPipeline({OrdersSpec}, {<<>>}, TransportOptions)

InitOpId ==
    /\ pc = "start"
    /\ method \in MethodStrings
    /\ path \in PathStrings
    /\ operationId = <<>>
    /\ api = <<>>
    /\ enabledPaths = <<>>
    /\ options = <<>>
    /\ parsed = <<>>
    /\ tools = <<>>
    /\ files = <<>>
    /\ InitNoCli

\* the text of a generated file
FileText(name) == CHOOSE text \in Lookup(files, name) : TRUE

\* parseOpenAPI: the dereferenced document goes through extractFromSpec
Parse ==
    /\ pc = "start"
    /\ parsed' = extractFromSpec(api)
    /\ pc' = "parsed"
    /\ UNCHANGED serverVars
    /\ UNCHANGED <<method, path, operationId, api, enabledPaths, tools, options, files>>
    /\ UNCHANGED cliVars

\* the endpoints that are filtered out removed from the argument as well
MapFilteringInPlace ==
    /\ pc = "parsed"
    /\ tools' = mapToMcpTools(parsed.endpoints, enabledPaths)
    /\ parsed' = [parsed EXCEPT !.endpoints =
                      SelectSeq(parsed.endpoints,
                                LAMBDA endpoint : isEnabled(endpoint, enabledPaths))]
    /\ pc' = "mapped"
    /\ UNCHANGED serverVars
    /\ UNCHANGED <<method, path, operationId, api, enabledPaths, options, files>>
    /\ UNCHANGED cliVars

\* mapToMcpTools(parsed.endpoints, enabledPaths)
Map ==
    /\ pc = "parsed"
    /\ tools' = mapToMcpTools(parsed.endpoints, enabledPaths)
    /\ pc' = "mapped"
    /\ UNCHANGED serverVars
    /\ UNCHANGED <<method, path, operationId, api, parsed, enabledPaths, options, files>>
    /\ UNCHANGED cliVars

\* generateMcpServer(tools, options, parsed.securitySchemes)
Generate ==
    /\ pc = "mapped"
    /\ files' = generateMcpServer(tools, options, parsed.securitySchemes)
    /\ pc' = "generated"
    /\ UNCHANGED serverVars
    /\ UNCHANGED <<method, path, operationId, api, parsed, enabledPaths, tools, options>>
    /\ UNCHANGED cliVars

\* generateOperationId(method, path)
Synthesize ==
    /\ pc = "start"
    /\ operationId' = generateOperationId(method, path)
    /\ pc' = "done"
    /\ UNCHANGED serverVars
    /\ UNCHANGED <<method, path, api, parsed, enabledPaths, tools, options, files>>
    /\ UNCHANGED cliVars

InitCli ==
    /\ pc = "cli"
    /\ api \in CliDocuments
    /\ values \in ValuesPool
    /\ outputDir \in OutputDirPool
    /\ nextFile = 0
    /\ stderr = <<>>
    /\ exitCode = <<>>
    /\ enabledPaths = <<>>
    /\ options = <<>>
    /\ parsed = <<>>
    /\ tools = <<>>
    /\ files = <<>>
    /\ method = <<>>
    /\ path = <<>>
    /\ operationId = <<>>
    /\ InitNoServer

\* console.error(...) and process.exit(1)
Fail(diagnostics) ==
    /\ stderr' = stderr \o diagnostics
    /\ exitCode' = <<1>>
    /\ pc' = "exited"

\* runGenerate: parseArgs and the check of --url
CliStart ==
    /\ pc = "cli"
    /\ IF Has(values, "url") /\ values.url # <<>>
       THEN pc' = "load" /\ UNCHANGED <<stderr, exitCode>>
       ELSE Fail(<<"Error: --url is required">>)
    /\ UNCHANGED serverVars
    /\ UNCHANGED <<method, path, operationId, api, parsed, enabledPaths, tools, options, files,
                   values, outputDir, nextFile>>

\* loadSpec and parseOpenAPI; an exception of either goes to the catch of runGenerate
CliLoad ==
    /\ pc = "load"
    /\ IF Has(api, "notFound")
       THEN Fail(<<"Error generating MCP server:">>) /\ UNCHANGED parsed
       ELSE parsed' = extractFromSpec(api) /\ pc' = "map" /\ UNCHANGED <<stderr, exitCode>>
    /\ UNCHANGED serverVars
    /\ UNCHANGED <<method, path, operationId, api, enabledPaths, tools, options, files,
                   values, outputDir, nextFile>>

\* const tools = mapToMcpTools(parsed.endpoints)
CliMap ==
    /\ pc = "map"
    /\ tools' = mapToMcpTools(parsed.endpoints, <<>>)
    /\ pc' = "check"
    /\ UNCHANGED serverVars
    /\ UNCHANGED <<method, path, operationId, api, parsed, enabledPaths, options, files>>
    /\ UNCHANGED cliVars

\* the check of the output directory
CliCheckOutput ==
    /\ pc = "check"
    /\ IF outputConflict(outputDir, values)
       THEN Fail(<<"Error: Output directory already exists: ", "Use --force to overwrite.">>)
       ELSE pc' = "prompts" /\ UNCHANGED <<stderr, exitCode>>
    /\ UNCHANGED serverVars
    /\ UNCHANGED <<method, path, operationId, api, parsed, enabledPaths, tools, options, files,
                   values, outputDir, nextFile>>

\* JSON.parse(values['prompts-json']) and Array.isArray
CliParsePrompts ==
    /\ pc = "prompts"
    /\ IF /\ Has(values, "prompts-json")
          /\ values["prompts-json"] # ""
          /\ ~PromptsIsArray(values["prompts-json"])
       THEN Fail(<<"Error parsing --prompts-json:">>)
       ELSE pc' = "generate" /\ UNCHANGED <<stderr, exitCode>>
    /\ UNCHANGED serverVars
    /\ UNCHANGED <<method, path, operationId, api, parsed, enabledPaths, tools, options, files,
                   values, outputDir, nextFile>>

\* const files = generateMcpServer(tools, {...}, parsed.securitySchemes)
CliGenerate ==
    /\ pc = "generate"
    /\ options' = generatorOptions(values, parsed)
    /\ files' = generateMcpServer(tools, options', parsed.securitySchemes)
    /\ pc' = "mkdir"
    /\ UNCHANGED serverVars
    /\ UNCHANGED <<method, path, operationId, api, parsed, enabledPaths, tools>>
    /\ UNCHANGED cliVars

\* mkdir(resolvedOutput, { recursive: true }), and of its src; a failure goes to the catch
CliMkdir ==
    /\ pc = "mkdir"
    /\ \E ok \in BOOLEAN :
           IF ok
           THEN /\ outputDir' = [outputDir EXCEPT !.exists = TRUE]
                /\ nextFile' = 1
                /\ pc' = "write"
                /\ UNCHANGED <<stderr, exitCode>>
           ELSE Fail(<<"Error generating MCP server:">>) /\ UNCHANGED <<outputDir, nextFile>>
    /\ UNCHANGED serverVars
    /\ UNCHANGED <<method, path, operationId, api, parsed, enabledPaths, tools, options, files,
                   values>>

\* one turn of the write loop: writeFile(fullPath, content); a failure goes to the catch
CliWriteFile ==
    /\ pc = "write"
    /\ nextFile <= Len(files)
    /\ \E ok \in BOOLEAN :
           IF ok
           THEN /\ outputDir' = [outputDir EXCEPT
                                    !.entries = setProperty(@, files[nextFile][1],
                                                            files[nextFile][2])]
                /\ nextFile' = nextFile + 1
                /\ UNCHANGED <<pc, stderr, exitCode>>
           ELSE Fail(<<"Error generating MCP server:">>) /\ UNCHANGED <<outputDir, nextFile>>
    /\ UNCHANGED serverVars
    /\ UNCHANGED <<method, path, operationId, api, parsed, enabledPaths, tools, options, files,
                   values>>

\* the loop is over: process.exit(0)
CliSucceed ==
    /\ pc = "write"
    /\ nextFile > Len(files)
    /\ exitCode' = <<0>>
    /\ pc' = "exited"
    /\ UNCHANGED serverVars
    /\ UNCHANGED <<method, path, operationId, api, parsed, enabledPaths, tools, options, files,
                   values, outputDir, nextFile, stderr>>

\* node build/index.js: dotenv.config() and the module constants
StartServer ==
    /\ pc = "generated"
    /\ processEnv' \in EnvPool
    /\ pc' = "serving"
    /\ UNCHANGED <<call, headers>>
    /\ UNCHANGED httpVars
    /\ UNCHANGED <<method, path, operationId, api, parsed, enabledPaths, tools, options, files>>
    /\ UNCHANGED cliVars

\* the CallToolRequestSchema handler for the name of a tool of the map, and
\* executeRequest up to the end of its loop over def.parameters
CallTool ==
    /\ pc = "serving"
    /\ \E i \in 1..Len(bakedToolDefinitions(FileText("src/index.ts"))), args \in ArgsPool :
           LET def == bakedToolDefinitions(FileText("src/index.ts"))[i]
           IN  /\ call' = [def |-> def, args |-> args]
               /\ headers' = headerParameters(def.parameters, args,
                                              << <<Accept, <<"application/json">>>> >>)
    /\ pc' = "headers"
    /\ UNCHANGED processEnv
    /\ UNCHANGED httpVars
    /\ UNCHANGED <<method, path, operationId, api, parsed, enabledPaths, tools, options, files>>
    /\ UNCHANGED cliVars

\* executeRequest: applySecurityHeaders(headers, def.securitySchemes)
ApplySecurityHeaders ==
    /\ pc = "headers"
    /\ headers' = applySecurityHeaders(headers, call.def.securitySchemes,
                                       bakedSecuritySchemes(FileText("src/index.ts")),
                                       processEnv)
    /\ pc' = "secured"
    /\ UNCHANGED <<processEnv, call>>
    /\ UNCHANGED httpVars
    /\ UNCHANGED <<method, path, operationId, api, parsed, enabledPaths, tools, options, files>>
    /\ UNCHANGED cliVars

\* executeRequest: the request config, the content type of a body, axios(config)
SendRequest ==
    /\ pc = "secured"
    /\ headers' = IF /\ call.def.requestBodyContentType # "undefined"
                     /\ Lookup(call.args, RequestBodyArgument) # {}
                  THEN setProperty(headers, ContentType, <<call.def.requestBodyContentType>>)
                  ELSE headers
    /\ pc' = "sent"
    /\ UNCHANGED <<processEnv, call>>
    /\ UNCHANGED httpVars
    /\ UNCHANGED <<method, path, operationId, api, parsed, enabledPaths, tools, options, files>>
    /\ UNCHANGED cliVars

\* executeRequest returns the CallToolResult; the server waits for the next call
ReturnResult ==
    /\ pc = "sent"
    /\ call' = <<>>
    /\ headers' = <<>>
    /\ pc' = "serving"
    /\ UNCHANGED processEnv
    /\ UNCHANGED httpVars
    /\ UNCHANGED <<method, path, operationId, api, parsed, enabledPaths, tools, options, files>>
    /\ UNCHANGED cliVars

\* node build/index.js --transport=streamable-http: setupStreamableHttpServer
StartHttpServer ==
    /\ pc = "generated"
    /\ processEnv' \in HttpEnvPool
    /\ pc' = "listening"
    /\ UNCHANGED <<call, headers>>
    /\ UNCHANGED httpVars
    /\ UNCHANGED <<method, path, operationId, api, parsed, enabledPaths, tools, options, files>>
    /\ UNCHANGED cliVars

\* a request to /mcp arrives; a request that would begin a session arrives only
\* while the run has not constructed MaxTransports transports
ReceiveRequest ==
    /\ pc = "listening"
    /\ \E sessionId \in SessionHeaders, authorization \in AuthorizationHeaders :
           /\ sessionRoute(sessionId, transports) = "new" => Len(created) < MaxTransports
           /\ request' = [sessionId |-> sessionId, authorization |-> authorization]
    /\ response' = <<>>
    /\ pc' = IF hasValidateToken(FileText("src/transport.ts")) THEN "guard" ELSE "session"
    /\ UNCHANGED <<processEnv, call, headers, transports, created, connected>>
    /\ UNCHANGED <<method, path, operationId, api, parsed, enabledPaths, tools, options, files>>
    /\ UNCHANGED cliVars

\* the middleware validateToken in front of the /mcp handler
ValidateToken ==
    /\ pc = "guard"
    /\ LET outcome == validateToken(request, FileText("src/transport.ts"), processEnv)
       IN  IF Has(outcome, "next")
           THEN pc' = "session" /\ UNCHANGED response
           ELSE pc' = "listening" /\ response' = outcome
    /\ UNCHANGED <<processEnv, call, headers, request, transports, created, connected>>
    /\ UNCHANGED <<method, path, operationId, api, parsed, enabledPaths, tools, options, files>>
    /\ UNCHANGED cliVars

\* the /mcp handler; handleRequest of a new transport reports the session when
\* the request is an initialize request
HandleMcp ==
    /\ pc = "session"
    /\ LET route == sessionRoute(request.sessionId, transports)
           new   == Len(created) + 1
       IN  \/ /\ route = "existing"
              /\ response' = [handledBy |->
                                 CHOOSE t \in Lookup(transports, request.sessionId[1]) : TRUE]
              /\ UNCHANGED <<transports, created, connected>>
           \/ /\ route = "new"
              /\ connected' = Append(connected, new)
              /\ response' = [handledBy |-> new]
              /\ \E initialize \in BOOLEAN :
                     IF initialize
                     THEN /\ created' = Append(created, [sessionId |-> << <<"uuid", new>> >>,
                                                         closed    |-> FALSE])
                          /\ transports' = onsessioninitialized(<<"uuid", new>>, new, transports)
                     ELSE /\ created' = Append(created, [sessionId |-> <<>>, closed |-> FALSE])
                          /\ UNCHANGED transports
           \/ /\ route = "notFound"
              /\ response' = [status |-> 404, error |-> "Session not found"]
              /\ UNCHANGED <<transports, created, connected>>
    /\ pc' = "listening"
    /\ UNCHANGED <<processEnv, call, headers, request>>
    /\ UNCHANGED <<method, path, operationId, api, parsed, enabledPaths, tools, options, files>>
    /\ UNCHANGED cliVars

\* a transport closes, on a DELETE of its session or on the server's side, and
\* calls its onclose
TransportClose ==
    /\ pc = "listening"
    /\ \E t \in 1..Len(created) :
           /\ ~created[t].closed
           /\ created' = [created EXCEPT ![t].closed = TRUE]
           /\ transports' = onclose(t, created, transports)
    /\ UNCHANGED <<pc, processEnv, call, headers, request, response, connected>>
    /\ UNCHANGED <<method, path, operationId, api, parsed, enabledPaths, tools, options, files>>
    /\ UNCHANGED cliVars

Next == Parse \/ Map \/ Generate

NextServer ==
    \/ Parse \/ Map \/ Generate
    \/ StartServer \/ CallTool \/ ApplySecurityHeaders \/ SendRequest \/ ReturnResult

NextTransport ==
    \/ Parse \/ Map \/ Generate
    \/ StartHttpServer \/ ReceiveRequest \/ ValidateToken \/ HandleMcp \/ TransportClose

NextCli ==
    \/ CliStart \/ CliLoad \/ CliMap \/ CliCheckOutput \/ CliParsePrompts
    \/ CliGenerate \/ CliMkdir \/ CliWriteFile \/ CliSucceed

NextOpId == Synthesize

Spec == Init /\ [][Next]_vars

SpecEndpoint == InitEndpoint /\ [][Next]_vars

SpecFilter == InitFilter /\ [][Next]_vars

SpecGen == InitGen /\ [][Next]_vars

SpecCli == InitCli /\ [][NextCli]_vars

SpecDetail == InitDetail /\ [][Next]_vars

SpecEnv == InitEnv /\ [][Next]_vars

SpecMerge == InitMerge /\ [][Next]_vars

SpecFrame == InitFrame /\ [][Next]_vars

SpecServer == InitServer /\ [][NextServer]_vars

SpecTransport == InitTransport /\ [][NextTransport]_vars

SpecOpId == InitOpId /\ [][NextOpId]_vars

(***************************************************************************)
(* Properties.                                                             *)
(***************************************************************************)
\* Capitalize: the first character in upper case, the rest as it is
Cap(str) == IF str = <<>> THEN <<>> ELSE <<charToUpper(str[1])>> \o Tail(str)

\* the positions where a non-empty segment of p starts, and where that segment ends
SegmentStarts(p) == {i \in 1..Len(p) : p[i] # "/" /\ (i = 1 \/ p[i - 1] = "/")}

SegmentEnd(p, i) ==
    CHOOSE j \in i..Len(p) : (\A k \in i..j : p[k] # "/") /\ (j = Len(p) \/ p[j + 1] = "/")

SegmentOutput(seg) ==
    IF Len(seg) >= 2 /\ seg[1] = "{" /\ seg[Len(seg)] = "}"
    THEN <<"B", "y">> \o Cap(SubSeq(seg, 2, Len(seg) - 1))
    ELSE Cap(seg)

RECURSIVE ExpectedPathPart(_, _)
ExpectedPathPart(p, i) ==
    IF i > Len(p) THEN <<>>
    ELSE IF i \in SegmentStarts(p)
         THEN SegmentOutput(SubSeq(p, i, SegmentEnd(p, i))) \o ExpectedPathPart(p, SegmentEnd(p, i) + 1)
         ELSE ExpectedPathPart(p, i + 1)

ExpectedOperationId(m, p) == Cap(toLowerCase(m)) \o ExpectedPathPart(p, 1)

\* C1: generateOperationId(m, p) is Capitalize(lowercase(m)) followed, for the
\* non-empty segments of p in order, by "By" + Capitalize(name) for a segment
\* {name} and Capitalize(segment) for any other; so the result is the same for
\* the method in upper and in lower case, and "/" yields the capitalized method.
C1_OperationIdContract ==
    pc = "done" =>
        /\ operationId = ExpectedOperationId(method, path)
        /\ operationId = generateOperationId(toUpperCase(method), path)
        /\ operationId = generateOperationId(toLowerCase(method), path)
        /\ (path = <<"/">> => operationId = Cap(toLowerCase(method)))

C1_Witness ==
    /\ pc = "done"
    /\ method = <<"G", "g">>
    /\ path = <<"/", "{", "a", "}">>
    /\ operationId = <<"G", "g", "B", "y", "A">>

\* C2: with no explicit operationId in the document, two endpoints of one
\* extraction with distinct (method, path) pairs have distinct operationIds.
C2_OperationIdsUnique ==
    pc # "start" =>
        \A i, j \in 1..Len(parsed.endpoints) :
            (<<parsed.endpoints[i].method, parsed.endpoints[i].path>>
                # <<parsed.endpoints[j].method, parsed.endpoints[j].path>>)
            => parsed.endpoints[i].operationId # parsed.endpoints[j].operationId

\* the "{METHOD}:{path}" key of a tool
ToolKey(tool) == toUpperCase(tool.httpMethod) \o <<":">> \o tool.pathTemplate

\* the positions of the endpoints whose key is in S, and the place of position i
\* among them
KeptPositions(S) ==
    {i \in 1..Len(parsed.endpoints) :
        (parsed.endpoints[i].method \o <<":">> \o parsed.endpoints[i].path) \in S}

Rank(S, i) == Cardinality({j \in KeptPositions(S) : j <= i})

\* the tool at position k is the tool of endpoint e
ToolOf(k, e) ==
    /\ tools[k].name = e.operationId
    /\ tools[k].pathTemplate = e.path
    /\ toUpperCase(tools[k].httpMethod) = e.method

\* C3: with an enabled set S supplied, mapToMcpTools returns at most |E| tools,
\* the key of every returned tool is in S, and the tools are exactly the
\* endpoints whose key is in S, in their original relative order.
C3_FilterIsSubset ==
    (pc \in {"mapped", "generated"} /\ enabledPaths # <<>>) =>
        LET S == enabledPaths[1]
        IN  /\ Len(tools) <= Len(parsed.endpoints)
            /\ \A k \in 1..Len(tools) : ToolKey(tools[k]) \in S
            /\ Len(tools) = Cardinality(KeptPositions(S))
            /\ \A i \in KeptPositions(S) : ToolOf(Rank(S, i), parsed.endpoints[i])

C3_Witness ==
    /\ pc = "mapped"
    /\ enabledPaths # <<>>
    /\ Len(parsed.endpoints) = 2
    /\ Len(tools) = 1
    /\ ToolOf(1, parsed.endpoints[2])

\* the operation of the document that an endpoint was extracted from: its path
\* template as declared and its method key
SourceOperations ==
    IF Has(api, "paths")
    THEN UNION {{[path |-> api.paths[i][1], method |-> api.paths[i][2].ops[k][1],
                  operation |-> api.paths[i][2].ops[k][2]]
                   : k \in 1..OperationCount(api.paths[i][2])}
                : i \in 1..Len(api.paths)}
    ELSE {}

\* C4: the key of an endpoint, as getEndpointKey returns it and as mapToMcpTools
\* tests it, is the upper-case method, a colon and the path template as
\* declared, with nothing normalized; an endpoint is retained if and only if
\* that exact string is in the enabled set.
C4_KeyFormat ==
    pc \in {"mapped", "generated"} =>
        \A i \in 1..Len(parsed.endpoints) :
            LET e == parsed.endpoints[i]
            IN  \E src \in SourceOperations :
                    LET key == toUpperCase(src.method) \o <<":">> \o src.path
                    IN  /\ e.path = src.path
                        /\ e.method = toUpperCase(src.method)
                        /\ getEndpointKey(e) = key
                        /\ enabledPaths # <<>> =>
                             ((\E k \in 1..Len(tools) : ToolOf(k, e)) <=> key \in enabledPaths[1])

\* an endpoint dropped although the set holds its key in lower case, with another
\* parameter name and with a trailing slash
C4_Witness ==
    /\ pc = "mapped"
    /\ Len(parsed.endpoints) = 2
    /\ enabledPaths = << {<<"g","e","t",":","/","a">>,
                          <<"G","E","T",":","/","a","/">>,
                          <<"G","E","T",":","/","{","b","}">>,
                          <<"D","E","L","E","T","E",":","/","a">>} >>
    /\ parsed.endpoints[1].path = <<"/","a">>
    /\ parsed.endpoints[1].method = <<"G","E","T">>
    /\ Len(tools) = 1
    /\ tools[1].httpMethod = <<"d","e","l","e","t","e">>

\* C5: filtering by the set of getAllEndpointKeys(E) returns a tool for every
\* endpoint of E, in order, equal to the tools of the call without a filter.
C5_AllKeysRoundTrip ==
    (/\ pc \in {"mapped", "generated"}
     /\ enabledPaths # <<>>
     /\ enabledPaths[1] = {getAllEndpointKeys(parsed.endpoints)[i] : i \in 1..Len(parsed.endpoints)})
    => /\ Len(tools) = Len(parsed.endpoints)
       /\ \A i \in 1..Len(tools) : ToolOf(i, parsed.endpoints[i])
       /\ tools = mapToMcpTools(parsed.endpoints, <<>>)

C5_Witness ==
    /\ pc = "mapped"
    /\ Len(parsed.endpoints) = 2
    /\ enabledPaths = << {getAllEndpointKeys(parsed.endpoints)[i] : i \in 1..2} >>
    /\ Len(tools) = 2
    /\ tools[1].pathTemplate # tools[2].pathTemplate

\* the fixed method order, in the upper case the endpoints carry
FixedMethodOrder ==
    << <<"G","E","T">>, <<"P","O","S","T">>, <<"P","U","T">>, <<"P","A","T","C","H">>,
       <<"D","E","L","E","T","E">>, <<"H","E","A","D">>, <<"O","P","T","I","O","N","S">> >>

MethodRank(m) == CHOOSE k \in 1..Len(FixedMethodOrder) : FixedMethodOrder[k] = m

PathIndex(p) == CHOOSE i \in 1..Len(api.paths) : api.paths[i][1] = p

\* the (path, METHOD) pairs of the operations the document declares under one of
\* the seven methods
DeclaredPairs ==
    {<<src.path, toUpperCase(src.method)>>
        : src \in {o \in SourceOperations :
                     \E k \in 1..Len(FixedMethodOrder) : FixedMethodOrder[k] = toUpperCase(o.method)}}

\* C6: the endpoint list is in declaration order of the paths and, within one
\* path, in the order get, post, put, patch, delete, head, options, whatever the
\* order of the method keys; it holds exactly one endpoint per (path, method)
\* operation declared under one of these methods.
C6_ExtractionOrder ==
    pc # "start" =>
        LET E == parsed.endpoints
        IN  /\ {<<E[i].path, E[i].method>> : i \in 1..Len(E)} = DeclaredPairs
            /\ Len(E) = Cardinality(DeclaredPairs)
            /\ \A i, j \in 1..Len(E) :
                   i < j =>
                       \/ PathIndex(E[i].path) < PathIndex(E[j].path)
                       \/ /\ E[i].path = E[j].path
                          /\ MethodRank(E[i].method) < MethodRank(E[j].method)

\* two paths, the first later in the alphabet, its method keys declared delete
\* before get
C6_Witness ==
    /\ pc = "parsed"
    /\ Has(api, "paths")
    /\ Len(api.paths) = 2
    /\ api.paths[1][1] = <<"/","b","y","A">>
    /\ api.paths[2][1] = <<"/","b">>
    /\ api.paths[1][2] = [ops |-> << <<Delete, EmptyObject>>, <<Get, EmptyObject>> >>]
    /\ Len(parsed.endpoints) = 3
    /\ parsed.endpoints[1].method = <<"G","E","T">>
    /\ parsed.endpoints[2].method = <<"D","E","L","E","T","E">>
    /\ parsed.endpoints[3].path = <<"/","b">>

\* C7: an endpoint's operationId is the operation's explicit (non-empty)
\* operationId verbatim, and generateOperationId(METHOD, path) when there is
\* none; the tool's name is that operationId; the document with GET and POST
\* /Orders, GET and DELETE /Orders/{id} and no explicit ids yields the names
\* GetOrders, PostOrders, GetOrdersById, DeleteOrdersById.
C7_OperationIdAndName ==
    pc \in {"mapped", "generated"} =>
        LET E == parsed.endpoints
        IN  /\ Len(tools) = Len(E)
            /\ \A i \in 1..Len(E) :
                   /\ tools[i].name = E[i].operationId
                   /\ \E src \in SourceOperations :
                          /\ src.path = E[i].path
                          /\ toUpperCase(src.method) = E[i].method
                          /\ E[i].operationId =
                                 IF /\ Has(src.operation, "operationId")
                                    /\ src.operation.operationId # <<>>
                                 THEN src.operation.operationId
                                 ELSE generateOperationId(E[i].method, E[i].path)
            /\ api = OrdersSpec =>
                   [i \in 1..Len(tools) |-> tools[i].name]
                       = << <<"G","e","t","O","r","d","e","r","s">>,
                            <<"P","o","s","t","O","r","d","e","r","s">>,
                            <<"G","e","t","O","r","d","e","r","s","B","y","I","d">>,
                            <<"D","e","l","e","t","e","O","r","d","e","r","s","B","y","I","d">> >>

C7_Witness ==
    /\ pc = "mapped"
    /\ api = OrdersSpec
    /\ Len(tools) = 4
    /\ tools[4].name = <<"D","e","l","e","t","e","O","r","d","e","r","s","B","y","I","d">>

RECURSIVE RequiredNames(_)
\* the names of the required parameters, in declaration order
RequiredNames(params) ==
    IF params = <<>> THEN <<>>
    ELSE (IF Head(params).required THEN <<Head(params).name>> ELSE <<>>)
             \o RequiredNames(Tail(params))

BodyRequired(e) == Has(e, "requestBody") /\ e.requestBody.required

\* C8: inputSchema has no key `required` when no parameter and no request body
\* is required; otherwise `required` lists the required parameters in
\* declaration order, followed by "requestBody" when the body is required.
C8_RequiredOmittedOrOrdered ==
    pc \in {"mapped", "generated"} =>
        \A i \in 1..Len(tools) :
            LET e        == parsed.endpoints[i]
                schema   == tools[i].inputSchema
                expected == RequiredNames(e.parameters)
                                \o (IF BodyRequired(e) THEN <<"requestBody">> ELSE <<>>)
            IN  IF expected = <<>>
                THEN ~Has(schema, "required")
                ELSE Has(schema, "required") /\ schema.required = expected

C8_Witness ==
    /\ pc = "mapped"
    /\ Len(tools) = 1
    /\ Has(tools[1].inputSchema, "required")
    /\ tools[1].inputSchema.required = <<"b", "q", "id", "requestBody">>

\* C9: the keys of the bundle are, in this order, package.json, tsconfig.json,
\* src/index.ts, src/transport.ts, .env.example, README.md, for every tool
\* list, scheme table and configuration.
C9_BundleKeys ==
    pc = "generated" =>
        [i \in 1..Len(files) |-> files[i][1]]
            = <<"package.json", "tsconfig.json", "src/index.ts", "src/transport.ts",
                ".env.example", "README.md">>

C9_Witness ==
    /\ pc = "generated"
    /\ Len(files) = 6
    /\ Len(tools) = 1
    /\ parsed.securitySchemes # <<>>
    /\ Has(options, "emcyEnabled") /\ options.emcyEnabled
    /\ Has(options, "localSdkPath")
    /\ Has(options, "oauth2Config") /\ Has(options.oauth2Config, "scopes")
    /\ ~Has(options, "version")

\* oauth2Config.authorizationServerUrl is set: there, and not the empty string
OAuthUrlSet ==
    /\ Has(options, "oauth2Config")
    /\ Has(options.oauth2Config, "authorizationServerUrl")
    /\ options.oauth2Config.authorizationServerUrl # <<>>

\* the position in a text of the piece with this literal
PiecePosition(text, literal) == (CHOOSE i \in 1..Len(text) : text[i][1] = literal)

\* C10: the OAuth fragments are all present when authorizationServerUrl is set
\* and all absent when it is not: MCP_OAUTH_CONFIG in src/index.ts; the
\* protected-resource endpoint, the validateToken guard of /mcp and the oauth
\* entry of /health in src/transport.ts; the three OAuth lines of .env.example.
C10_OAuthFragmentsTogether ==
    pc = "generated" =>
        LET index     == FileText("src/index.ts")
            transport == FileText("src/transport.ts")
            env       == FileText(".env.example")
            health    == transport[PiecePosition(transport, "app.get('/health'")][2]
            guard     == transport[PiecePosition(transport, "app.all('/mcp'")][2]
        IN  /\ Contains(index, "const MCP_OAUTH_CONFIG = {") <=> OAuthUrlSet
            /\ Contains(transport, "app.get('/.well-known/oauth-protected-resource'") <=> OAuthUrlSet
            /\ Contains(transport, "const validateToken = ") <=> OAuthUrlSet
            /\ (guard = <<"validateToken">>) <=> OAuthUrlSet
            /\ (guard = <<>>) <=> ~OAuthUrlSet
            /\ (\E k \in 1..Len(health) : health[k] = "oauth") <=> OAuthUrlSet
            /\ Contains(env, "OAUTH_AUTHORIZATION_SERVER=") <=> OAuthUrlSet
            /\ Contains(env, "# MCP_RESOURCE_URL=https://your-mcp-server.example.com") <=> OAuthUrlSet
            /\ Contains(env, "# MCP_REQUIRE_AUTH=true") <=> OAuthUrlSet

C10_Witness ==
    /\ pc = "generated"
    /\ OAuthUrlSet
    /\ Contains(FileText("src/index.ts"), "const MCP_OAUTH_CONFIG = {")
    /\ Contains(FileText("src/transport.ts"), "const validateToken = ")
    /\ Contains(FileText(".env.example"), "OAUTH_AUTHORIZATION_SERVER=")

\* the scheme names of the table, and whether a tool of the list names one
SchemeReferenced(schemeName) ==
    \E i \in 1..Len(tools) :
        \E k \in 1..Len(tools[i].securitySchemes) : tools[i].securitySchemes[k] = schemeName

\* C11: .env.example holds the credential variable of a scheme of the table
\* exactly when a tool of the list names the scheme: API_KEY_{ENV} for apiKey,
\* BEARER_TOKEN_{ENV} for http bearer, OAUTH_ACCESS_TOKEN_{ENV} for oauth2, the
\* variable the emitted server reads; a scheme no tool names has no line.
C11_CredentialLinesForReferencedSchemes ==
    pc = "generated" =>
        LET env == FileText(".env.example")
        IN  \A n \in 1..Len(parsed.securitySchemes) :
                LET schemeName == parsed.securitySchemes[n][1]
                    variable   == securityEnvVariable(schemeName, parsed.securitySchemes)
                IN  /\ variable # <<>>
                    /\ (\E i \in 1..Len(env) : env[i] = variable[1])
                           <=> SchemeReferenced(schemeName)

\* the telemetry markers that the text of a template literal contains
MarkersOf(literal) ==
    CASE literal = "import { EmcyTelemetry } from '@emcy/sdk';" -> {"EmcyTelemetry"}
      [] literal = "new EmcyTelemetry({"                        -> {"EmcyTelemetry"}
      [] literal = "emcy.trace("                                -> {"emcy.trace"}
      [] OTHER                                                  -> {}

\* the pieces of src/index.ts whose interpolated value is a string of the options
StringInterpolations == {"MCP Server: ", "SERVER_NAME = ", "SERVER_VERSION = ", "API_BASE_URL = "}

\* a string of text pieces holds the marker
StringIncludes(str, marker) == \E k \in 1..Len(str) : str[k] = marker

\* text.includes(marker): in a literal of the template or in an interpolated string
TextIncludes(text, marker) ==
    \E i \in 1..Len(text) :
        \/ marker \in MarkersOf(text[i][1])
        \/ text[i][1] \in StringInterpolations /\ StringIncludes(text[i][2], marker)

EmcyEnabled == Has(options, "emcyEnabled") /\ options.emcyEnabled

TelemetryMarkersPresent ==
    LET index == FileText("src/index.ts")
    IN  /\ Contains(index, "import { EmcyTelemetry } from '@emcy/sdk';")
        /\ Contains(index, "new EmcyTelemetry({")
        /\ Contains(index, "emcy.trace(")

\* C12 as stated: src/index.ts holds the three telemetry markers when
\* emcyEnabled is true, and its text holds neither 'EmcyTelemetry' nor
\* 'emcy.trace' anywhere when it is false, whatever the configuration.
C12_NoTelemetryTextWhenDisabled ==
    pc = "generated" =>
        LET index == FileText("src/index.ts")
        IN  /\ EmcyEnabled => TelemetryMarkersPresent
            /\ ~EmcyEnabled => /\ ~TextIncludes(index, "EmcyTelemetry")
                               /\ ~TextIncludes(index, "emcy.trace")

\* C12 as amended: src/index.ts holds the three telemetry markers when
\* emcyEnabled is true; when it is false no literal of the template holds
\* 'EmcyTelemetry' or 'emcy.trace', and the text holds one of them only where
\* a string interpolated from the options (name, version, base URL) holds it.
C12_NoTelemetryFragmentWhenDisabled ==
    pc = "generated" =>
        LET index == FileText("src/index.ts")
        IN  /\ EmcyEnabled => TelemetryMarkersPresent
            /\ ~EmcyEnabled =>
                   /\ \A i \in 1..Len(index) : MarkersOf(index[i][1]) = {}
                   /\ \A marker \in {"EmcyTelemetry", "emcy.trace"} :
                          TextIncludes(index, marker) =>
                              \/ StringIncludes(options.name, marker)
                              \/ StringIncludes(StrOr(options, "version", <<"1.0.0">>), marker)
                              \/ StringIncludes(options.baseUrl, marker)

\* telemetry switched off by an explicit false, the server named after the marker
C12_Witness ==
    /\ pc = "generated"
    /\ Has(options, "emcyEnabled") /\ ~options.emcyEnabled
    /\ StringIncludes(options.name, "EmcyTelemetry")
    /\ TextIncludes(FileText("src/index.ts"), "EmcyTelemetry")
    /\ ~Contains(FileText("src/index.ts"), "emcy.trace(")

\* C13: in .env.example the API_BASE_URL and PORT lines are there for every
\* configuration, and the telemetry variable lines (EMCY_API_KEY,
\* EMCY_TELEMETRY_URL, EMCY_MCP_SERVER_ID, EMCY_DEBUG) only when emcyEnabled is true.
C13_TelemetryLinesOnlyWhenEnabled ==
    pc = "generated" =>
        LET env == FileText(".env.example")
        IN  /\ Contains(env, "API_BASE_URL=")
            /\ Contains(env, "PORT=3000")
            /\ \A line \in {"# EMCY_API_KEY=your-api-key-from-emcy-dashboard",
                            "# EMCY_TELEMETRY_URL=http://localhost:5140/api/v1/telemetry",
                            "# EMCY_MCP_SERVER_ID=mcp_xxxxxxxxxxxx",
                            "# EMCY_DEBUG=false"} :
                   Contains(env, line) => EmcyEnabled

\* the value package.json declares for a dependency: a set of at most one element
DependencyValue(name) ==
    LET deps == FileText("package.json")[1][2].dependencies
    IN  {deps[i][2] : i \in {k \in 1..Len(deps) : deps[k][1] = name}}

\* C14: package.json declares @emcy/sdk exactly when emcyEnabled is true, the
\* configurations in which src/index.ts imports '@emcy/sdk'; its value is
\* 'file:' + localSdkPath when localSdkPath is set and '^0.1.0' otherwise; a
\* localSdkPath without emcyEnabled adds no dependency.
C14_SdkDependencyWithTelemetry ==
    pc = "generated" =>
        LET declared  == DependencyValue("@emcy/sdk")
            localPath == IF Has(options, "localSdkPath") THEN options.localSdkPath ELSE <<>>
        IN  /\ declared # {} <=> EmcyEnabled
            /\ declared # {} <=>
                   Contains(FileText("src/index.ts"), "import { EmcyTelemetry } from '@emcy/sdk';")
            /\ EmcyEnabled =>
                   declared = {IF localPath # <<>> THEN <<"file:">> \o localPath
                                                    ELSE <<"^0.1.0">>}

C14_Witness ==
    /\ pc = "generated"
    /\ EmcyEnabled
    /\ DependencyValue("@emcy/sdk") = {<<"file:", "../sdk">>}

\* the operation of the document that the i-th endpoint was extracted from
SourceOf(i) ==
    CHOOSE src \in SourceOperations :
        /\ src.path = parsed.endpoints[i].path
        /\ toUpperCase(src.method) = parsed.endpoints[i].method

\* C15: for every parameter p of an endpoint, properties[p.name] carries every
\* key of p.schema, with a description equal to the parameter-level description
\* whenever the parameter has one, the empty string included, and equal to the
\* schema-level description only when the parameter has none.
C15_ParameterDescriptionWins ==
    pc \in {"mapped", "generated"} =>
        \A i \in 1..Len(tools) :
            \A n \in 1..Len(parsed.endpoints[i].parameters) :
                LET p        == parsed.endpoints[i].parameters[n]
                    property == Lookup(tools[i].inputSchema.properties, p.name)
                IN  \E prop \in property :
                        /\ \A key \in DOMAIN p.schema \ {"description"} :
                               Has(prop, key) /\ prop[key] = p.schema[key]
                        /\ IF Has(p, "description")
                           THEN Has(prop, "description") /\ prop.description = p.description
                           ELSE IF Has(p.schema, "description")
                           THEN Has(prop, "description")
                                    /\ prop.description = p.schema.description
                           ELSE ~Has(prop, "description")

\* a text that is there and not empty
Present(obj, key) == Has(obj, key) /\ obj[key] # <<>>

\* C16: the tool description is the summary when there is one and
\* 'Executes {METHOD} {path}' otherwise, followed by a blank line and the
\* endpoint description exactly when a description exists and differs from
\* the summary.
C16_DescriptionSynthesis ==
    pc \in {"mapped", "generated"} =>
        \A i \in 1..Len(tools) :
            LET e     == parsed.endpoints[i]
                first == IF Present(e, "summary") THEN e.summary
                         ELSE <<"Executes ">> \o e.method \o <<" ">> \o e.path
                differs == Present(e, "description")
                               /\ ~(Has(e, "summary") /\ e.summary = e.description)
            IN  tools[i].description
                    = first \o (IF differs THEN <<"\n\n">> \o e.description ELSE <<>>)

\* a summary with an equal description: the description is not appended
C16_Witness ==
    /\ pc = "mapped"
    /\ Len(tools) = 1
    /\ Present(parsed.endpoints[1], "summary")
    /\ Present(parsed.endpoints[1], "description")
    /\ parsed.endpoints[1].summary = parsed.endpoints[1].description
    /\ tools[1].description = <<"S">>

\* the content of the request body of the operation the i-th endpoint comes from
ContentOf(i) ==
    LET operation == SourceOf(i).operation
    IN  IF /\ Has(operation, "requestBody")
           /\ ~isReference(operation.requestBody)
           /\ Has(operation.requestBody, "content")
        THEN operation.requestBody.content
        ELSE <<>>

\* the endpoint retains this media type of the body
Retains(e, media) ==
    /\ Has(e, "requestBody")
    /\ e.requestBody.contentType = media[1]
    /\ Has(media[2], "schema")
    /\ e.requestBody.schema = media[2].schema

\* C17 as stated: of a request body, extraction retains application/json
\* whenever the body declares it and otherwise the first content type declared;
\* contentType and schema are those of that media type.
C17_JsonElseFirstContentType ==
    pc # "start" =>
        \A i \in 1..Len(parsed.endpoints) :
            LET content == ContentOf(i)
                declaresJson == \E k \in 1..Len(content) : content[k][1] = "application/json"
            IN  content # <<>> =>
                    IF declaresJson
                    THEN \E k \in 1..Len(content) :
                             content[k][1] = "application/json"
                                 /\ Retains(parsed.endpoints[i], content[k])
                    ELSE Retains(parsed.endpoints[i], content[1])

\* C17 as amended: extraction retains application/json whenever the body
\* declares it with a schema; otherwise the first content type declared, when
\* that one has a schema; otherwise no request body at all.
C17_JsonWithSchemaElseFirstWithSchema ==
    pc # "start" =>
        \A i \in 1..Len(parsed.endpoints) :
            LET content == ContentOf(i)
                jsonWithSchema ==
                    {k \in 1..Len(content) :
                        content[k][1] = "application/json" /\ Has(content[k][2], "schema")}
            IN  IF jsonWithSchema # {}
                THEN \A k \in jsonWithSchema : Retains(parsed.endpoints[i], content[k])
                ELSE IF content # <<>> /\ Has(content[1][2], "schema")
                THEN Retains(parsed.endpoints[i], content[1])
                ELSE ~Has(parsed.endpoints[i], "requestBody")

\* application/json declared second and without a schema: the first type is kept
C17_Witness ==
    /\ pc = "parsed"
    /\ Len(parsed.endpoints) = 1
    /\ ContentOf(1) = <<TextMedia, JsonMediaNoSchema>>
    /\ Has(parsed.endpoints[1], "requestBody")
    /\ parsed.endpoints[1].requestBody.contentType = "text/plain"

\* C20 as stated: generate without the overwrite flag exits with status 1, a
\* diagnostic on the error stream and no bundle file written, when the output
\* directory exists and is non-empty, and goes on to write the bundle when the
\* directory is absent or empty; no bundle file is written before the check
\* of the directory has passed.
C20_ConflictOnlyWhenPopulated ==
    [][/\ (pc = "check" /\ ~values.force) =>
              IF outputDir.exists /\ outputDir.entries # <<>>
              THEN /\ exitCode' = <<1>>
                   /\ Len(stderr') > Len(stderr)
                   /\ outputDir' = outputDir
              ELSE pc' = "prompts" /\ exitCode' = <<>>
       /\ outputDir' # outputDir => pc \in {"mkdir", "write"}]_vars

\* C20 as amended: generate without the overwrite flag exits with status 1, a
\* diagnostic on the error stream and no bundle file written, when the output
\* directory already exists, empty or not, and goes on towards writing the
\* bundle when the directory is absent; no bundle file is written before the
\* check of the directory has passed.
C20_ConflictWhenDirectoryExists ==
    [][/\ (pc = "check" /\ ~values.force) =>
              IF outputDir.exists
              THEN /\ exitCode' = <<1>>
                   /\ Len(stderr') > Len(stderr)
                   /\ outputDir' = outputDir
              ELSE pc' = "prompts" /\ exitCode' = <<>>
       /\ outputDir' # outputDir => pc \in {"mkdir", "write"}]_vars

\* an existing, empty directory without --force: status 1, nothing written
C20_Witness ==
    /\ pc = "exited"
    /\ exitCode = <<1>>
    /\ ~values.force
    /\ outputDir = [exists |-> TRUE, entries |-> <<>>]
    /\ stderr = <<"Error: Output directory already exists: ", "Use --force to overwrite.">>


\* the path item that the i-th endpoint was extracted from
PathItemOf(i) ==
    api.paths[CHOOSE n \in 1..Len(api.paths) : api.paths[n][1] = parsed.endpoints[i].path][2]

\* the parameter nodes of the i-th endpoint as the document declares them: those
\* of the path item, then those of the operation, without the reference nodes
MergedParameters(i) ==
    SelectSeq(ArrOr(PathItemOf(i), "parameters") \o ArrOr(SourceOf(i).operation, "parameters"),
              LAMBDA node : ~isReference(node))

\* the last node of that name
LastNamed(nodes, name) ==
    nodes[CHOOSE n \in 1..Len(nodes) :
              /\ nodes[n].name = name
              /\ \A m \in (n + 1)..Len(nodes) : nodes[m].name # name]

\* the endpoint's parameter list is the path-level nodes followed by the
\* operation-level nodes, reference nodes skipped
ParametersMerged(i) ==
    LET nodes  == MergedParameters(i)
        params == parsed.endpoints[i].parameters
    IN  /\ Len(params) = Len(nodes)
        /\ \A n \in 1..Len(nodes) :
               /\ params[n].name = nodes[n].name
               /\ params[n].in = nodes[n].in
               /\ params[n].required = (Has(nodes[n], "required") /\ nodes[n].required)

\* properties[name] is built from the last node of that name
BuiltFromLast(i, name) ==
    Lookup(tools[i].inputSchema.properties, name)
        = {parameterProperty(extractParameter(LastNamed(MergedParameters(i), name)))}

\* C23: the endpoint's parameter list is the path-level parameters followed by
\* the operation-level parameters, reference nodes skipped, and for every
\* parameter name properties[name] is built from the last parameter of that
\* name in the merged list.
C23_LastParameterDefinesProperty ==
    pc \in {"mapped", "generated"} =>
        \A i \in 1..Len(tools) :
            /\ ParametersMerged(i)
            /\ \A n \in 1..Len(MergedParameters(i)) :
                   BuiltFromLast(i, MergedParameters(i)[n].name)

\* C23 (amended): as above for every parameter name except "requestBody" on an
\* endpoint that has a request body, where properties.requestBody is built
\* from the body and from no parameter.
C23_LastParameterDefinesPropertyUnlessBody ==
    pc \in {"mapped", "generated"} =>
        \A i \in 1..Len(tools) :
            /\ ParametersMerged(i)
            /\ \A n \in 1..Len(MergedParameters(i)) :
                   LET name == MergedParameters(i)[n].name
                   IN  IF name = "requestBody" /\ Has(parsed.endpoints[i], "requestBody")
                       THEN Lookup(tools[i].inputSchema.properties, name)
                                = {[description |-> <<"The JSON request body.">>]
                                       @@ parsed.endpoints[i].requestBody.schema}
                       ELSE BuiltFromLast(i, name)

\* a path-level "id" of type integer overridden by an operation-level "id" of
\* type string
C23_Witness ==
    /\ pc = "mapped"
    /\ Len(tools) = 1
    /\ Len(parsed.endpoints[1].parameters) = 2
    /\ parsed.endpoints[1].parameters[1].in = "path"
    /\ parsed.endpoints[1].parameters[1].name = "id"
    /\ parsed.endpoints[1].parameters[2].in = "query"
    /\ parsed.endpoints[1].parameters[2].name = "id"
    /\ Lookup(tools[1].inputSchema.properties, "id") = {[type |-> "string"]}


\* schema.required, [] when the key is omitted
RequiredOf(schema) == IF Has(schema, "required") THEN schema.required ELSE <<>>

\* how many times the name is in the list
Occurrences(names, name) == Cardinality({n \in 1..Len(names) : names[n] = name})

\* how many required parameters have the name
RequiredParameters(params, name) ==
    Cardinality({n \in 1..Len(params) : params[n].name = name /\ params[n].required})

\* C24: for an endpoint with a request body, properties.requestBody has the
\* keys of the body schema and the description "The JSON request body.",
\* whatever description the body schema carries, and the body step appends
\* "requestBody" to required exactly when the body is required; for an endpoint
\* without a request body the body step adds no requestBody property and no
\* required entry.
C24_RequestBodyProperty ==
    pc \in {"mapped", "generated"} =>
        \A i \in 1..Len(tools) :
            LET e        == parsed.endpoints[i]
                schema   == tools[i].inputSchema
                required == RequiredOf(schema)
                property == Lookup(schema.properties, "requestBody")
                fromParameters == RequiredParameters(e.parameters, "requestBody")
            IN  IF Has(e, "requestBody")
                THEN /\ \E prop \in property :
                           /\ DOMAIN prop = DOMAIN e.requestBody.schema \cup {"description"}
                           /\ prop.description = <<"The JSON request body.">>
                           /\ \A key \in DOMAIN e.requestBody.schema \ {"description"} :
                                  prop[key] = e.requestBody.schema[key]
                     /\ Occurrences(required, "requestBody")
                            = fromParameters + (IF e.requestBody.required THEN 1 ELSE 0)
                     /\ e.requestBody.required => required[Len(required)] = "requestBody"
                ELSE /\ Occurrences(required, "requestBody") = fromParameters
                     /\ IF \E n \in 1..Len(e.parameters) : e.parameters[n].name = "requestBody"
                        THEN BuiltFromLast(i, "requestBody")
                        ELSE property = {}

\* a required body whose schema carries its own description
C24_Witness ==
    /\ pc = "mapped"
    /\ Len(tools) = 1
    /\ Has(parsed.endpoints[1], "requestBody")
    /\ parsed.endpoints[1].requestBody.required
    /\ parsed.endpoints[1].requestBody.schema.description = <<"body text">>
    /\ Lookup(tools[1].inputSchema.properties, "requestBody")
           = {[type |-> "object", description |-> <<"The JSON request body.">>]}
    /\ tools[1].inputSchema.required = <<"requestBody">>


\* whether the entry that finally defines properties[name] is required: the
\* request body for "requestBody" on an endpoint that has one, the last
\* parameter of that name otherwise
DefinerRequired(e, name) ==
    IF name = "requestBody" /\ Has(e, "requestBody")
    THEN e.requestBody.required
    ELSE /\ \E n \in 1..Len(e.parameters) : e.parameters[n].name = name
         /\ LastNamed(e.parameters, name).required

\* C29: for every endpoint, one with two parameters of the same name or with a
\* parameter named "requestBody" next to a request body included,
\* inputSchema.required lists each name at most once, every listed name is a
\* key of inputSchema.properties, and a name is listed if and only if the entry
\* that finally defines properties[name] is required.
C29_RequiredAgreesWithProperties ==
    pc \in {"mapped", "generated"} =>
        \A i \in 1..Len(tools) :
            LET e          == parsed.endpoints[i]
                required   == RequiredOf(tools[i].inputSchema)
                properties == tools[i].inputSchema.properties
            IN  /\ \A n \in 1..Len(required) : Occurrences(required, required[n]) = 1
                /\ \A n \in 1..Len(required) : Lookup(properties, required[n]) # {}
                /\ \A k \in 1..Len(properties) :
                       Occurrences(required, properties[k][1]) > 0
                           <=> DefinerRequired(e, properties[k][1])


\* the security requirement objects of the operation the i-th endpoint comes from
RequirementsOf(i) == ArrOr(SourceOf(i).operation, "security")

RECURSIVE NamesBefore(_, _)
\* how many scheme names the requirement objects before the r-th hold
NamesBefore(requirements, r) ==
    IF r <= 1 THEN 0
    ELSE NamesBefore(requirements, r - 1) + Len(requirements[r - 1])

\* C25: an endpoint's securitySchemes list is the concatenation, in order, of
\* the scheme names of all the operation's security requirement objects: the
\* k-th name of the r-th object stands after all names of the objects before
\* it, and the list holds nothing else, whether the objects are alternatives
\* or the names inside one object are jointly required.
C25_SchemeNamesFlattened ==
    pc \in {"parsed", "mapped", "generated"} =>
        \A i \in 1..Len(parsed.endpoints) :
            LET requirements == RequirementsOf(i)
                names        == parsed.endpoints[i].securitySchemes
            IN  /\ Len(names) = NamesBefore(requirements, Len(requirements) + 1)
                /\ \A r \in 1..Len(requirements) :
                       \A k \in 1..Len(requirements[r]) :
                           names[NamesBefore(requirements, r) + k] = requirements[r][k]

\* an empty requirement object, an alternative with one scheme and an
\* alternative that requires two schemes together
C25_Witness ==
    /\ pc = "parsed"
    /\ Len(parsed.endpoints) = 1
    /\ RequirementsOf(1) = << <<>>, <<TokenScheme>>, <<KeyScheme, TokenScheme>> >>
    /\ parsed.endpoints[1].securitySchemes = <<TokenScheme, KeyScheme, TokenScheme>>

\* the lines of .env.example that name a credential variable of a scheme
CredentialLines ==
    {n \in 1..Len(FileText(".env.example")) :
        FileText(".env.example")[n][1] \in {"API_KEY_", "BEARER_TOKEN_", "OAUTH_ACCESS_TOKEN_"}}

\* C30: an endpoint's securitySchemes list depends only on the operation's own
\* security field: an operation without that field gets the empty list whatever
\* document-wide security requirement the document declares, the tool mapped
\* from it names no scheme, and a bundle whose tools all come from such
\* operations has no credential line in .env.example.
C30_OperationSecurityOnly ==
    /\ pc \in {"parsed", "mapped", "generated"} =>
           \A i \in 1..Len(parsed.endpoints) :
               ~Has(SourceOf(i).operation, "security")
                   => parsed.endpoints[i].securitySchemes = <<>>
    /\ pc \in {"mapped", "generated"} =>
           \A i \in 1..Len(tools) :
               ~Has(SourceOf(i).operation, "security") => tools[i].securitySchemes = <<>>
    /\ pc = "generated" =>
           ((\A i \in 1..Len(tools) : ~Has(SourceOf(i).operation, "security"))
                => CredentialLines = {})

\* a document-wide requirement naming two defined schemes, an operation with no
\* security field, and the bundle generated from it
C30_Witness ==
    /\ pc = "generated"
    /\ Has(api, "security")
    /\ api.security = << <<KeyScheme>>, <<TokenScheme>> >>
    /\ Len(parsed.securitySchemes) = 3
    /\ Len(tools) = 1
    /\ ~Has(SourceOf(1).operation, "security")
    /\ tools[1].securitySchemes = <<>>
    /\ CredentialLines = {}


\* C26: mapToMcpTools and generateMcpServer leave their arguments as they
\* were: over the call of mapToMcpTools the endpoint list, with every endpoint,
\* parameter and schema in it, and the enabled set keep their values, and over
\* the call of generateMcpServer the tool list, the configuration and the
\* security-scheme table keep theirs.
C26_ArgumentsUnchanged ==
    [][/\ (pc = "parsed" /\ pc' = "mapped")
           => (parsed' = parsed /\ enabledPaths' = enabledPaths)
       /\ (pc = "mapped" /\ pc' = "generated")
           => (tools' = tools /\ options' = options /\ parsed' = parsed
                  /\ enabledPaths' = enabledPaths)]_vars

\* both calls have returned: an endpoint was filtered out, the tool that was
\* kept carries parameters, a body and scheme names, and the bundle was built
\* from it with OAuth and telemetry configured
C26_Witness ==
    /\ pc = "generated"
    /\ Len(parsed.endpoints) = 2
    /\ Len(parsed.endpoints[2].parameters) = 2
    /\ enabledPaths # <<>>
    /\ Len(tools) = 1
    /\ Len(tools[1].parameters) = 2
    /\ Lookup(tools[1].inputSchema.properties, "requestBody") # {}
    /\ tools[1].securitySchemes = <<KeyScheme, TokenScheme>>
    /\ Len(parsed.securitySchemes) = 3
    /\ hasAuthorizationServerUrl(options)
    /\ EmcyEnabled
    /\ Len(files) = 6


\* the scheme name in upper case with every character that is not a letter or
\* a digit replaced by "_"
ExpectedEnvName(schemeName) ==
    [i \in 1..Len(schemeName) |->
        IF \/ IndexIn(schemeName[i], LowerLetters) > 0
           \/ IndexIn(schemeName[i], UpperLetters) > 0
        THEN charToUpper(schemeName[i])
        ELSE IF IndexIn(schemeName[i], Digits) > 0 THEN schemeName[i] ELSE "_"]

\* the variable is set: it is there and not empty
IsSet(name) == name \in DOMAIN processEnv /\ processEnv[name] # <<>>

\* the header that one scheme name of the list stands for, if any
ExpectedHeader(schemeName) ==
    LET scheme   == Lookup(parsed.securitySchemes, schemeName)
        ENV      == ExpectedEnvName(schemeName)
        apiKey   == <<"API_KEY_", ENV>>
        bearer   == <<"BEARER_TOKEN_", ENV>>
        oauth    == <<"OAUTH_ACCESS_TOKEN_", ENV>>
        upstream == Piece("UPSTREAM_ACCESS_TOKEN")
    IN  IF \E sc \in scheme : sc.type = "apiKey" /\ sc.in = "header" /\ IsSet(apiKey)
        THEN << <<toLowerCase((CHOOSE sc \in scheme : TRUE).name), processEnv[apiKey]>> >>
        ELSE IF \E sc \in scheme : sc.type = "http" /\ sc.scheme = "bearer" /\ IsSet(bearer)
        THEN << <<Authorization, <<"Bearer ">> \o processEnv[bearer]>> >>
        ELSE IF \E sc \in scheme : sc.type = "oauth2" /\ IsSet(oauth)
        THEN << <<Authorization, <<"Bearer ">> \o processEnv[oauth]>> >>
        ELSE IF \E sc \in scheme : sc.type = "oauth2" /\ IsSet(upstream)
        THEN << <<Authorization, <<"Bearer ">> \o processEnv[upstream]>> >>
        ELSE <<>>

\* the names of the entries of a headers object
HeaderNames(hdrs) == {hdrs[i][1] : i \in 1..Len(hdrs)}

\* the positions of the list whose scheme sets the header
Writers(schemeNames, header) ==
    {n \in 1..Len(schemeNames) :
        /\ ExpectedHeader(schemeNames[n]) # <<>>
        /\ ExpectedHeader(schemeNames[n])[1][1] = header}

\* C22: applySecurityHeaders applied to a tool's scheme-name list sets, for
\* each named scheme of the table in turn, with ENV the scheme name in upper
\* case and every non-alphanumeric character replaced by "_": for apiKey the
\* scheme's header to API_KEY_{ENV}, only if that variable is set and the
\* location is header; for http bearer, Authorization to "Bearer " +
\* BEARER_TOKEN_{ENV} if set; for oauth2, Authorization to "Bearer " +
\* OAUTH_ACCESS_TOKEN_{ENV}, or + UPSTREAM_ACCESS_TOKEN when the former is
\* unset, and nothing when neither is set.  A name absent from the table and
\* a scheme of another kind change no header; a header no scheme sets keeps
\* the value it had.
C22_SecurityHeadersFromEnvironment ==
    [][(pc = "headers" /\ pc' = "secured") =>
          LET names == call.def.securitySchemes
              all   == HeaderNames(headers) \cup HeaderNames(headers')
                           \cup {ExpectedHeader(names[n])[1][1]
                                    : n \in {k \in 1..Len(names) : ExpectedHeader(names[k]) # <<>>}}
          IN  \A header \in all :
                  Lookup(headers', header) =
                      IF Writers(names, header) = {}
                      THEN Lookup(headers, header)
                      ELSE {ExpectedHeader(names[CHOOSE n \in Writers(names, header) :
                                \A m \in Writers(names, header) : m <= n])[1][2]}]_vars

\* a call with a client value for x-key, on a tool that names the header key
\* scheme and the oauth2 scheme, with API_KEY_KEY set, OAUTH_ACCESS_TOKEN_OA set
\* to "" and UPSTREAM_ACCESS_TOKEN set
C22_Witness ==
    /\ pc = "secured"
    /\ call.def.securitySchemes = <<KeyScheme, OAuthScheme>>
    /\ Lookup(call.args, XKey) = {<<"client value">>}
    /\ <<"OAUTH_ACCESS_TOKEN_", <<"O","A">>>> \in DOMAIN processEnv
    /\ processEnv[<<"OAUTH_ACCESS_TOKEN_", <<"O","A">>>>] = <<>>
    /\ headers = << <<Accept, <<"application/json">>>>,
                    <<toLowerCase(XKey), <<"value of ", "API_KEY_", <<"K","E","Y">>>>>>,
                    <<Authorization,
                      <<"Bearer ", "value of ", "UPSTREAM_ACCESS_TOKEN", <<>>>>>> >>


\* the session table holds exactly the sessions of the transports that have
\* reported their session and have not closed
SessionTableExact ==
    /\ \A i \in 1..Len(transports) :
           /\ transports[i][2] \in 1..Len(created)
           /\ created[transports[i][2]].sessionId = <<transports[i][1]>>
           /\ ~created[transports[i][2]].closed
    /\ \A t \in 1..Len(created) :
           (created[t].sessionId # <<>> /\ ~created[t].closed)
               => Lookup(transports, created[t].sessionId[1]) = {t}

\* the request in the handler carries a session id that is registered
CarriesRegisteredId ==
    /\ request.sessionId # <<>>
    /\ Lookup(transports, request.sessionId[1]) # {}

\* C21: a session id is registered in the session table from the moment the
\* transport created for a request without mcp-session-id header reports its
\* session until that transport closes: the handler creates a new transport
\* for a request without the header, hands a request with a registered id to
\* the transport registered under that id, and after a transport has closed
\* its id is not registered and no request is handed to it.
C21_SessionRegisteredUntilClose ==
    [][/\ SessionTableExact'
       /\ (pc = "session" /\ request.sessionId = <<>>)
              => /\ Len(created') = Len(created) + 1
                 /\ response' = [handledBy |-> Len(created')]
       /\ (pc = "session" /\ CarriesRegisteredId)
              => /\ response' = [handledBy |->
                                    CHOOSE t \in Lookup(transports, request.sessionId[1]) : TRUE]
                 /\ created' = created
       /\ (pc = "session" /\ Has(response', "handledBy"))
              => ~created'[response'.handledBy].closed]_vars

\* the first session was registered and has closed, the second is registered
\* and has just been handed a request that carries its id
C21_Witness ==
    /\ pc = "listening"
    /\ Len(created) = 2
    /\ created[1].sessionId = << <<"uuid", 1>> >>
    /\ created[1].closed
    /\ Lookup(transports, <<"uuid", 1>>) = {}
    /\ Lookup(transports, <<"uuid", 2>>) = {2}
    /\ request.sessionId = << <<"uuid", 2>> >>
    /\ response = [handledBy |-> 2]

\* the answer "Session not found" that leaves everything as it was
NotFoundAndNothingElse ==
    /\ response' = [status |-> 404, error |-> "Session not found"]
    /\ created' = created
    /\ connected' = connected
    /\ transports' = transports

\* C27: a request that carries an mcp-session-id not present in the session
\* table is answered with status 404 "Session not found", creates no
\* transport, does not connect the server to anything and leaves the session
\* table unchanged.
C27_UnknownSessionIsNotFound ==
    [][(/\ pc = "session"
        /\ request.sessionId # <<>>
        /\ Lookup(transports, request.sessionId[1]) = {})
           => NotFoundAndNothingElse]_vars

\* C27 (amended): the same for a request whose mcp-session-id is not the empty
\* string; a request whose mcp-session-id is empty is treated as one without
\* the header.
C27_UnknownNonEmptySessionIsNotFound ==
    [][(/\ pc = "session"
        /\ request.sessionId # <<>>
        /\ request.sessionId[1] # <<>>
        /\ Lookup(transports, request.sessionId[1]) = {})
           => NotFoundAndNothingElse]_vars

\* a request that carries the id of a session that has closed
C27_Witness ==
    /\ pc = "listening"
    /\ Len(created) = 1
    /\ created[1].sessionId = << <<"uuid", 1>> >>
    /\ created[1].closed
    /\ request.sessionId = << <<"uuid", 1>> >>
    /\ response = [status |-> 404, error |-> "Session not found"]
    /\ connected = <<1>>
    /\ transports = <<>>

\* the Authorization header starts with "Bearer " and the token after it has
\* at least ten characters
BearerTokenPresented ==
    /\ request.authorization # <<>>
    /\ Len(request.authorization[1]) >= 17
    /\ SubSeq(request.authorization[1], 1, 7) = <<"B","e","a","r","e","r"," ">>

\* the answer 401 that names the protected-resource metadata and leaves the
\* session state as it was
UnauthorizedAndNothingElse ==
    /\ pc' = "listening"
    /\ Has(response', "status") /\ response'.status = 401
    /\ Has(response', "wwwAuthenticate")
    /\ \E i \in 1..Len(response'.wwwAuthenticate) :
           response'.wwwAuthenticate[i] = "/.well-known/oauth-protected-resource"
    /\ created' = created
    /\ connected' = connected
    /\ transports' = transports

\* C28: with OAuth configured and requireAuth true, a request to /mcp reaches
\* session handling only if its Authorization header starts with "Bearer " and
\* the token after it has at least ten characters, and every other request is
\* answered 401 with a WWW-Authenticate header that names the
\* /.well-known/oauth-protected-resource metadata URL and changes no session
\* state; with requireAuth false every request passes the guard.
C28_GuardBeforeSessionHandling ==
    [][pc = "guard" =>
          IF processEnv = <<>> \/ processEnv[Piece("MCP_REQUIRE_AUTH")] # <<"false">>
          THEN IF BearerTokenPresented THEN pc' = "session" ELSE UnauthorizedAndNothingElse
          ELSE pc' = "session"]_vars

====
